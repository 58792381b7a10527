----------------------------- MODULE MCWindows ------------------------------
(* An instance of Windows for TLC. *)
EXTENDS Windows

AllCalls == {"CreateWindowEx", "DestroyWindow", "SetFocus", "SetParent", "SetWindowPos"}
CreateAndDestroy == {"CreateWindowEx", "DestroyWindow"}
Nothing == {}
Handlers == {"WM_CREATE", "WM_PARENTNOTIFY", "WM_DESTROY", "WM_NCDESTROY"}
=============================================================================
