--------------------------------- MODULE Page ---------------------------------
(***************************************************************************)
(* The page the browser shows (web/src/main.ts show): one view at a time,  *)
(* mounted from nothing and destroyed when another is opened.  A destroyed *)
(* view keeps its closures: what it awaits still arrives, and finds the    *)
(* flag every mount function keeps, `destroyed`.                           *)
(***************************************************************************)

CONSTANT None

VARIABLES
    page,           \* the view that was mounted
    destroyed       \* and whether it has been destroyed since

Pages == {"list", "console", "files", "projects", "form"}

PageInit == page \in Pages /\ destroyed = FALSE

Mounted(p) == page = p /\ ~destroyed

(* Its view is destroyed; the view's own module says what that releases.   *)
Destroys(p) ==
    /\ Mounted(p)
    /\ destroyed' = TRUE
    /\ UNCHANGED page

=============================================================================
