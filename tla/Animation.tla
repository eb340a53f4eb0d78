------------------------------ MODULE Animation ------------------------------
(***************************************************************************)
(* The two animated canvases of the landing page, WalletInflowPanel.tsx    *)
(* and FooterMatrix.tsx, which keep the same loop: what starts and stops   *)
(* it comes from the size of the element, the observer that tells whether  *)
(* it is in view, the tab's visibility and the motion preference, in any   *)
(* order, and from the mount.  What is drawn is left out but for the       *)
(* number of packets in the panel's pool.                                  *)
(***************************************************************************)
EXTENDS Integers

CONSTANTS
  Canvases,
  Pool,      \* MAX: packets of a pool (70 or 140)
  Burst      \* packets of a submission (30)

ASSUME MotionAssumption == Pool \in Nat /\ Burst \in Nat

VARIABLES
  canvas,    \* canvas[c]: the state of its effect
  box,       \* box[c]: the element has a size
  inView,    \* inView[c]: it is in the window
  hidden,    \* document.hidden
  reduced    \* the preference for reduced motion

motionVars == <<canvas, box, inView, hidden, reduced>>

Unmounted ==
  [on |-> FALSE, sized |-> FALSE, running |-> FALSE, frames |-> 0, timer |-> FALSE,
   seen |-> FALSE, visible |-> FALSE, packets |-> 0,
   told |-> FALSE,      \* the preference it was last told of
   refused |-> FALSE,   \* the last start found no size
   unasked |-> FALSE]   \* the last start was not the observer's or the tab's

MotionInit ==
  /\ canvas = [c \in Canvases |-> Unmounted]
  /\ box \in [Canvases -> BOOLEAN]
  /\ inView \in [Canvases -> BOOLEAN]
  /\ hidden \in BOOLEAN /\ reduced \in BOOLEAN

Mounted == {c \in Canvases : canvas[c].on}

\* What one event does to the canvas that hears it.
On(c, s) == canvas' = [canvas EXCEPT ![c] = s]
OnAll(handle(_)) ==
  canvas' = [c \in Canvases |-> IF canvas[c].on THEN handle(canvas[c]) ELSE canvas[c]]

-----------------------------------------------------------------------------
(* The effect's functions: a state of the canvas, and the next.            *)

\* Faulty: started again while it runs.
StartTwice(s, slow) ==
  IF slow \/ ~ s.sized THEN [s EXCEPT !.refused = ~ slow]
  ELSE [s EXCEPT !.running = TRUE, !.frames = @ + 1, !.packets = 0,
                 !.refused = FALSE, !.unasked = FALSE]

\* start
StartLoop(s, slow) ==
  IF s.running THEN s
  ELSE IF slow \/ ~ s.sized THEN [s EXCEPT !.refused = ~ slow]
  ELSE [s EXCEPT !.running = TRUE, !.frames = @ + 1, !.packets = 0,
                 !.refused = FALSE, !.unasked = FALSE]

\* stop: cancelAnimationFrame takes the frame requested last.
StopLoop(s) == [s EXCEPT !.running = FALSE, !.frames = IF @ > 0 THEN @ - 1 ELSE 0]

\* start without having looked whether it is seen.
StartUnasked(s, slow) ==
  IF s.running THEN s ELSE [StartLoop(s, slow) EXCEPT !.unasked = TRUE]

\* renderStatic
Still(s) == [s EXCEPT !.packets = 1]

-----------------------------------------------------------------------------
(* The mount, the events.                                                  *)

\* The effect: a resize, a start or a still picture; the size observer's first
\* report sets its timer.
Mount(c) ==
  /\ ~ canvas[c].on
  /\ LET s == [Unmounted EXCEPT !.on = TRUE, !.sized = box[c], !.timer = TRUE, !.told = reduced]
     IN On(c, IF reduced THEN Still(s) ELSE StartUnasked(s, reduced))
  /\ UNCHANGED <<box, inView, hidden, reduced>>

\* Its cleanup.
Unmount(c) ==
  /\ canvas[c].on
  /\ LET s == StopLoop(canvas[c])
     IN On(c, [Unmounted EXCEPT !.running = s.running, !.frames = s.frames])
  /\ UNCHANGED <<box, inView, hidden, reduced>>

\* The page is scrolled, or laid out anew; the size observer sets the timer.
Scroll(c) ==
  /\ inView' = [inView EXCEPT ![c] = ~ @]
  /\ UNCHANGED <<canvas, box, hidden, reduced>>

Layout(c) ==
  /\ box' = [box EXCEPT ![c] = ~ @]
  /\ On(c, [canvas[c] EXCEPT !.timer = canvas[c].on])
  /\ UNCHANGED <<inView, hidden, reduced>>

\* resize: the picture is drawn in the new size, and the loop left as it is.
Resize(c) ==
  /\ canvas[c].timer
  /\ LET s == [canvas[c] EXCEPT !.timer = FALSE, !.sized = box[c]]
     IN On(c, IF reduced /\ box[c] /\ ~ canvas[c].sized THEN Still(s) ELSE s)
  /\ UNCHANGED <<box, inView, hidden, reduced>>

\* The IntersectionObserver reports, once after the mount and at every change.
Observe(c) ==
  /\ canvas[c].on /\ (~ canvas[c].seen \/ canvas[c].visible # inView[c])
  /\ LET s == [canvas[c] EXCEPT !.seen = TRUE, !.visible = inView[c]]
     IN On(c, IF inView[c] THEN StartLoop(s, reduced) ELSE StopLoop(s))
  /\ UNCHANGED <<box, inView, hidden, reduced>>

\* visibilitychange
SwitchTab ==
  /\ hidden' = ~ hidden
  /\ OnAll(LAMBDA s : IF hidden' THEN StopLoop(s)
                      ELSE IF s.visible THEN StartLoop(s, reduced) ELSE s)
  /\ UNCHANGED <<box, inView, reduced>>

\* The preference changes; a later turn dispatches the change to the canvases,
\* sooner than a user changes it again.
Prefer ==
  /\ \A c \in Mounted : canvas[c].told = reduced
  /\ reduced' = ~ reduced
  /\ UNCHANGED <<canvas, box, inView, hidden>>

\* onReduceChange
Report(c) ==
  /\ canvas[c].on /\ canvas[c].told # reduced
  /\ LET s == [StopLoop(canvas[c]) EXCEPT !.told = reduced]
     IN On(c, IF reduced THEN Still(s) ELSE StartUnasked(s, reduced))
  /\ UNCHANGED <<box, inView, hidden, reduced>>

\* frame: packets come and arrive; the next frame is requested if it runs.
Frame(c) ==
  /\ canvas[c].frames > 0 /\ ~ hidden
  /\ \E n \in 0..Pool :
       On(c, [canvas[c] EXCEPT !.frames = IF canvas[c].running THEN @ ELSE @ - 1,
                               !.packets = IF canvas[c].running THEN n ELSE @])
  /\ UNCHANGED <<box, inView, hidden, reduced>>

\* submit: a burst of packets as far as the pool has room, and away.
LookUp(c) ==
  /\ canvas[c].on
  /\ LET full == canvas[c].packets + Burst
     IN On(c, [canvas[c] EXCEPT !.packets = IF full < Pool THEN full ELSE Pool])
  /\ UNCHANGED <<box, inView, hidden, reduced>>

MotionNext ==
  \/ SwitchTab \/ Prefer
  \/ \E c \in Canvases :
       Mount(c) \/ Unmount(c) \/ Scroll(c) \/ Layout(c) \/ Resize(c) \/ Observe(c)
         \/ Report(c) \/ Frame(c) \/ LookUp(c)

MotionSpec == MotionInit /\ [][MotionNext]_motionVars

-----------------------------------------------------------------------------
\* A loop has one frame requested while it runs and none when it does not:
\* four sources start it and it never runs twice as fast, or on after a stop.
OneLoop == \A c \in Canvases : canvas[c].frames = IF canvas[c].running THEN 1 ELSE 0

\* Nothing of a canvas outlives it.
NothingLeft == \A c \in Canvases \ Mounted : canvas[c] = Unmounted

\* A loop that runs out of view was started by the mount, before the observer
\* reported, or by a change of the preference, which does not ask it; the
\* preference is followed.
RunsSeen ==
  \A c \in Mounted :
    /\ canvas[c].running /\ ~ canvas[c].visible => canvas[c].unasked
    /\ canvas[c].running => ~ (reduced /\ canvas[c].told)

\* A canvas that is seen moves, unless it had no size when it was to start.
MovesSeen ==
  \A c \in Mounted :
    canvas[c].visible /\ ~ hidden /\ ~ reduced /\ ~ canvas[c].told /\ ~ canvas[c].refused
      => canvas[c].running

\* What the loops of the landing page promise.
MotionHonest == OneLoop /\ NothingLeft /\ RunsSeen /\ MovesSeen
=============================================================================
