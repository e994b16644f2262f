------------------------------ MODULE FilesPanel ------------------------------
(***************************************************************************)
(* The files panel beside a console (web/src/views/files.ts): a tree of    *)
(* directories loaded one by one and the preview of one file.  Everything  *)
(* is clicked faster than it is answered, and a panel that was closed      *)
(* still gets its answers.                                                 *)
(***************************************************************************)
EXTENDS Naturals, Page

CONSTANTS
    Dirs,           \* directories in the root
    Previews,       \* files in the root
    MaxLoads        \* bound: requests for one path at a time

ASSUME PanelAssumption == None \notin Dirs \cup Previews

VARIABLES
    open,           \* directories that are unfolded
    listed,         \* per directory, the root is None: what is known of it
    loads,          \* its listings on their way
    selected,
    reads,          \* the file's reads on their way
    texts,          \* and its texts, being decoded
    preview,        \* whose preview is shown, and what it is
    link,           \* the download is offered
    objectUrl,      \* an object URL is held
    urls            \* history: object URLs made and not revoked

panelVars == <<open, listed, loads, selected, reads, texts, preview, link,
               objectUrl, urls>>
treeVars == <<open, listed, loads>>
previewVars == <<selected, reads, texts, preview, link, objectUrl, urls>>

PanelTypeOK ==
    /\ open \subseteq Dirs
    /\ listed \in [Dirs \cup {None} -> {"nothing", "listed", "failed"}]
    /\ loads \in [Dirs \cup {None} -> Nat]
    /\ selected \in Previews \cup {None}
    /\ reads \in [Previews -> Nat] /\ texts \in [Previews -> Nat]
    /\ preview \in [of : Previews \cup {None},
                    as : {"nothing", "loading", "image", "text", "message"}]
    /\ link \in BOOLEAN /\ objectUrl \in BOOLEAN /\ urls \in Nat

PanelInit ==
    /\ open = {} /\ listed = [d \in Dirs \cup {None} |-> "nothing"]
    /\ loads = [d \in Dirs \cup {None} |-> IF d = None THEN 1 ELSE 0]
    /\ selected = None
    /\ reads = [f \in Previews |-> 0] /\ texts = [f \in Previews |-> 0]
    /\ preview = [of |-> None, as |-> "nothing"]
    /\ link = FALSE /\ objectUrl = FALSE /\ urls = 0

-----------------------------------------------------------------------------
(* The tree                                                                *)

(* toggle                                                                  *)
Folds(d) ==
    /\ Mounted("files") /\ listed[None] = "listed"
    /\ IF d \in open THEN open' = open \ {d} /\ UNCHANGED loads
       ELSE /\ open' = open \cup {d}
            /\ loads[d] < MaxLoads /\ loads' = [loads EXCEPT ![d] = @ + 1]
    /\ UNCHANGED <<listed, previewVars>>

(* refresh: the button, and the console after an upload.                   *)
RefreshesTree ==
    /\ Mounted("files")
    /\ \A d \in open \cup {None} : loads[d] < MaxLoads
    /\ loads' = [d \in DOMAIN loads |->
                    IF d \in open \cup {None} THEN loads[d] + 1 ELSE loads[d]]
    /\ UNCHANGED <<open, listed, previewVars>>

(* Deviation: a failure forgets the listing and leaves no word.            *)
Forgotten == "nothing"

Failure == "failed"

(* load, after its await                                                   *)
Loaded(d) ==
    /\ page = "files" /\ loads[d] > 0
    /\ loads' = [loads EXCEPT ![d] = @ - 1]
    /\ IF destroyed THEN UNCHANGED listed
       ELSE \E answer \in {"listed", Failure} :
                listed' = [listed EXCEPT ![d] = answer]
    /\ UNCHANGED <<open, previewVars>>

-----------------------------------------------------------------------------
(* The preview                                                             *)

(* show, up to its await                                                   *)
Clicks(f) ==
    /\ Mounted("files") /\ listed[None] = "listed"
    /\ reads[f] + texts[f] < MaxLoads
    /\ selected' = f /\ link' = FALSE
    /\ preview' = [of |-> f, as |-> "loading"]
    /\ reads' = [reads EXCEPT ![f] = @ + 1]
    /\ UNCHANGED <<treeVars, texts, objectUrl, urls>>

(* Deviation: a closed panel takes what it is sent.                        *)
WantedAnyway(f) == selected = f

Wanted(f) == ~destroyed /\ selected = f

(* Deviation: what was wanted before it was decoded still is.              *)
TextWantedAnyway(f) == ~destroyed

TextWanted(f) == ~destroyed /\ selected = f

(* Deviation: what was never made is revoked.                              *)
AlwaysHeld == 1

Held == IF objectUrl THEN 1 ELSE 0

(* show, after its await: an image is shown from an object URL of its own, *)
(* a text has to be decoded first, the rest has a name and a size.         *)
Read(f) ==
    /\ page = "files" /\ reads[f] > 0
    /\ reads' = [reads EXCEPT ![f] = @ - 1]
    /\ IF ~Wanted(f)
       THEN UNCHANGED <<texts, preview, link, objectUrl, urls>>
       ELSE /\ link' = TRUE
            /\ \/ /\ objectUrl' = TRUE /\ urls' = (urls - Held) + 1
                  /\ preview' = [of |-> f, as |-> "image"]
                  /\ UNCHANGED texts
               \/ /\ objectUrl' = FALSE /\ urls' = urls - Held
                  /\ preview' = [of |-> f, as |-> "message"]
                  /\ UNCHANGED texts
               \/ /\ objectUrl' = FALSE /\ urls' = urls - Held
                  /\ texts' = [texts EXCEPT ![f] = @ + 1]
                  /\ UNCHANGED preview
    /\ UNCHANGED <<treeVars, selected>>

ReadFails(f) ==
    /\ page = "files" /\ reads[f] > 0
    /\ reads' = [reads EXCEPT ![f] = @ - 1]
    /\ preview' = IF ~destroyed /\ selected = f
                  THEN [of |-> f, as |-> "message"] ELSE preview
    /\ UNCHANGED <<treeVars, selected, texts, link, objectUrl, urls>>

Decoded(f) ==
    /\ page = "files" /\ texts[f] > 0
    /\ texts' = [texts EXCEPT ![f] = @ - 1]
    /\ preview' = IF TextWanted(f) THEN [of |-> f, as |-> "text"] ELSE preview
    /\ UNCHANGED <<treeVars, selected, reads, link, objectUrl, urls>>

-----------------------------------------------------------------------------

(* destroy                                                                 *)
LeavesFiles ==
    /\ Destroys("files")
    /\ urls' = urls - Held /\ objectUrl' = FALSE
    /\ UNCHANGED <<treeVars, selected, reads, texts, preview, link>>

PanelNext ==
    \/ RefreshesTree
    \/ \E d \in Dirs : Folds(d)
    \/ \E d \in Dirs \cup {None} : Loaded(d)
    \/ \E f \in Previews : Clicks(f) \/ Read(f) \/ ReadFails(f) \/ Decoded(f)

-----------------------------------------------------------------------------

PreviewIsSelected == preview.of = selected

UrlsReleased == urls = Held /\ (destroyed => urls = 0)

LoadingIsLoading ==
    Mounted("files") =>
        \A d \in open \cup {None} : listed[d] = "nothing" => loads[d] > 0

(* What the panel shows is true, whatever was clicked meanwhile and in     *)
(* whatever order the answers come: the preview is of what is selected     *)
(* (show); no object URL but the one it holds is left unrevoked, and none  *)
(* once it is closed (releaseObjectUrl); a directory that reads            *)
(* "loading..." is being loaded (load).                                    *)
PanelIsTrue == PreviewIsSelected /\ UrlsReleased /\ LoadingIsLoading

=============================================================================
