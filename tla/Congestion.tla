----------------------------- MODULE Congestion -----------------------------
(***************************************************************************)
(* The congestion controller of a stream (proto/congestion.hpp) as the     *)
(* loops of send_lane and of the multiplexed sender drive it: NACKs,       *)
(* retransmission timeouts, acknowledged progress and the poll at the top  *)
(* of an iteration, in any order.  A poll applies one decision per elapsed *)
(* round trip, of which any number up to MaxEpochs may have passed.        *)
(***************************************************************************)
EXTENDS Integers

CONSTANTS
    MaxWindow,    \* max_window_
    FirstWindow,  \* the argument of enable_slow_start()
    CleanEpochs,  \* clean_windows_to_grow_
    GrowStep,     \* grow_step_
    MaxBackoff,   \* kMaxBackoff
    MaxEpochs     \* round trips between two polls

ASSUME CcAssumption ==
    {MaxWindow, FirstWindow, CleanEpochs, GrowStep, MaxBackoff, MaxEpochs} \subseteq Nat

VARIABLES
    cc,        \* window_, slow_start_, clean_streak_ and loss_in_window_
    sampled,   \* srtt_ns_ # 0
    backoff,   \* backoff_
    \* history: halvings since the run of timeouts began, or since a NACK
    halvings

ccVars == <<cc, sampled, backoff, halvings>>

Floor == IF MaxWindow < 2 THEN MaxWindow ELSE 2
Clamp(n) == IF n < Floor THEN Floor ELSE IF n > MaxWindow THEN MaxWindow ELSE n

(* The constructor, then enable_slow_start(). *)
CcInit ==
    /\ cc = [window |-> Clamp(FirstWindow), slow |-> TRUE, streak |-> 0, loss |-> FALSE]
    /\ sampled = FALSE /\ backoff = 0 /\ halvings = 0

RttSample ==
    /\ ~ sampled
    /\ sampled' = TRUE
    /\ UNCHANGED <<cc, backoff, halvings>>

(* One elapsed round trip. *)
Decide(c) ==
    IF c.loss
    THEN [window |-> Clamp(c.window \div 2), slow |-> FALSE, streak |-> 0, loss |-> FALSE]
    ELSE IF c.slow
    THEN [c EXCEPT !.window = Clamp(2 * c.window), !.slow = Clamp(2 * c.window) # MaxWindow]
    ELSE IF c.streak + 1 >= CleanEpochs
    THEN [c EXCEPT !.window = Clamp(c.window + GrowStep), !.streak = 0]
    ELSE [c EXCEPT !.streak = c.streak + 1]

Poll(epochs) ==
    LET after[n \in 0 .. epochs] == IF n = 0 THEN cc ELSE Decide(after[n - 1])
    IN  /\ sampled
        /\ cc' = after[epochs]
        /\ halvings' = IF epochs > 0 /\ cc.loss THEN halvings + 1 ELSE halvings
        /\ UNCHANGED <<sampled, backoff>>

NackLoss ==
    /\ cc' = [cc EXCEPT !.loss = TRUE]
    /\ halvings' = 0
    /\ UNCHANGED <<sampled, backoff>>

(* Wrong variant: every timeout counts as a loss. *)
TimeoutEachLoss ==
    /\ cc' = [cc EXCEPT !.loss = TRUE]
    /\ halvings' = IF backoff = 0 THEN 0 ELSE halvings
    /\ backoff' = IF backoff < MaxBackoff THEN backoff + 1 ELSE backoff
    /\ UNCHANGED sampled

(* on_timeout(): only the first of a run is a loss, all of them back off. *)
Timeout ==
    /\ cc' = IF backoff = 0 THEN [cc EXCEPT !.loss = TRUE] ELSE cc
    /\ halvings' = IF backoff = 0 THEN 0 ELSE halvings
    /\ backoff' = IF backoff < MaxBackoff THEN backoff + 1 ELSE backoff
    /\ UNCHANGED sampled

Progress ==
    /\ backoff' = 0
    /\ UNCHANGED <<cc, sampled, halvings>>

CcNext ==
    \/ RttSample
    \/ \E epochs \in 0 .. MaxEpochs : Poll(epochs)
    \/ NackLoss \/ Timeout \/ Progress

CcSpec == CcInit /\ [][CcNext]_ccVars

-----------------------------------------------------------------------------
(* A run of timeouts, however long and however many round trips it lasts,
   halves the window once, so that a lane on a dead path does not come back
   with the smallest window (congestion.hpp: "one window halving", and
   transfer.cpp:1978). *)
OneHalvingPerRun == backoff > 0 => halvings <= 1
=============================================================================
