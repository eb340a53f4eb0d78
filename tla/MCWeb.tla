------------------------------- MODULE MCWeb -------------------------------
(***************************************************************************)
(* The parts of the pages that keep a state of their own.  They share no   *)
(* variable, so that one run takes them one after the other: `part` says   *)
(* which one moves, the others stay as they were initially.                *)
(***************************************************************************)
EXTENDS Profile, BrowserLists, Gallery, Animation

VARIABLE part

vars == <<part, profileVars, listVars, galleryVars, motionVars>>

Init ==
  /\ part \in {"profile", "lists", "gallery", "motion"}
  /\ ProfileInit /\ (part # "profile" => table = Blank)
  /\ ListsInit /\ (part # "lists" => /\ page = [t \in Tabs |-> CHOOSE w \in Wallets : TRUE]
                                     /\ account = [t \in Tabs |-> None])
  /\ GalleryInit /\ (part # "gallery" => nfts = {} /\ place = [o \in Objects |-> "wallet"])
  /\ MotionInit /\ (part # "motion" => /\ box = [c \in Canvases |-> TRUE] /\ inView = box
                                       /\ ~ hidden /\ ~ reduced)

Next ==
  /\ UNCHANGED part
  /\ \/ part = "profile" /\ ProfileNext /\ UNCHANGED <<listVars, galleryVars, motionVars>>
     \/ part = "lists" /\ ListsNext /\ UNCHANGED <<profileVars, galleryVars, motionVars>>
     \/ part = "gallery" /\ GalleryNext /\ UNCHANGED <<profileVars, listVars, motionVars>>
     \/ part = "motion" /\ MotionNext /\ UNCHANGED <<profileVars, listVars, galleryVars>>

Spec == Init /\ [][Next]_vars
=============================================================================
