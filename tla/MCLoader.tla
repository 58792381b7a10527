------------------------------ MODULE MCLoader ------------------------------
(* An instance of Loader for TLC. *)
EXTENDS Loader, TLC

CONSTANTS dllA, codeB, builtinC, exeE, nativeN, peP, shortS, missingX, t1, t2, h1, h2, h3, h4, h5

\* Two libraries that import each other, a built-in one and a shared object, a program,
\* a PE file that lacks an import, a file cut short.
FileKind == (dllA :> "dll") @@ (codeB :> "code") @@ (builtinC :> "builtin") @@ (exeE :> "exe")
               @@ (nativeN :> "native") @@ (peP :> "pe") @@ (shortS :> "short")
               @@ (missingX :> "missing")
FileImports == (dllA :> <<codeB, builtinC>>) @@ (codeB :> <<dllA>>) @@ (exeE :> <<codeB, nativeN>>)
               @@ (peP :> <<codeB, missingX>>) @@ (shortS :> <<builtinC>>)
               @@ [f \in {builtinC, nativeN, missingX} |-> <<>>]
Files == DOMAIN FileKind

\* Handles are as good as each other, and so are tasks.
Symmetry == Permutations({h1, h2, h3, h4, h5}) \cup Permutations({t1, t2})
=============================================================================
