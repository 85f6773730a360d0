----------------------------- MODULE BlockSize ------------------------------
(***************************************************************************)
(* How send_lane (proto/transfer.cpp) adapts the size of its blocks: it    *)
(* doubles after a run of confirmed batches, up to a ceiling, and falls    *)
(* back to the configured size on a loss; a loss right after growing makes *)
(* the previous size the ceiling until a clean stretch has passed, which   *)
(* doubles with every failed probe.  A block keeps the size it was cut     *)
(* with until it is confirmed.  The path delivers datagrams up to          *)
(* PathLimit, which the sender does not know.  Sizes are in units of the   *)
(* configured block size.                                                  *)
(***************************************************************************)
EXTENDS Integers, Sequences

CONSTANTS
    MtuCeiling,    \* mtu_ceiling: what the route's MTU allows
    PathLimit,     \* the largest block that gets through
    CleanToGrow,   \* kCleanBatchesToGrow
    FirstReprobe,  \* 64, the first clean stretch
    LastReprobe,   \* 4096, the longest
    MaxInFlight    \* unconfirmed blocks

ASSUME SizeAssumption ==
    /\ MtuCeiling \in Nat \ {0}
    /\ CleanToGrow \in Nat \ {0}
    /\ FirstReprobe \in Nat \ {0}
    /\ LastReprobe \in Nat
    /\ FirstReprobe <= LastReprobe

VARIABLES
    block,        \* block
    ceiling,      \* growth_ceiling
    preGrowth,    \* pre_growth_block
    sinceGrowth,  \* clean_since_growth, counted up to CleanToGrow
    batches,      \* clean_batches, counted up to CleanToGrow
    atCeiling,    \* clean_at_ceiling
    reprobe,      \* reprobe_after
    flight,       \* unconfirmed blocks from the base up: size, and arrived or not
    \* history: the ceiling and clean stretch set by the latest failed probe,
    \* and how often the base has advanced since without a loss
    failCeiling, due, rest

probeHistory == <<failCeiling, due, rest>>
sizeVars == <<block, ceiling, preGrowth, sinceGrowth, batches, atCeiling, reprobe,
              flight, probeHistory>>

Lesser(a, b) == IF a < b THEN a ELSE b

SizeInit ==
    /\ block = 1 /\ ceiling = MtuCeiling /\ preGrowth = 0
    /\ sinceGrowth = 0 /\ batches = 0 /\ atCeiling = 0 /\ reprobe = FirstReprobe
    /\ flight = <<>>
    /\ failCeiling = MtuCeiling /\ due = 0 /\ rest = 0

SendSized ==
    /\ Len(flight) < MaxInFlight
    /\ flight' = Append(flight, [size |-> block, arrived |-> FALSE])
    /\ UNCHANGED <<block, ceiling, preGrowth, sinceGrowth, batches, atCeiling, reprobe>>
    /\ UNCHANGED probeHistory

(* A copy gets through: the first, or one that a NACK or a timeout had resent
   from the registry, at the size the block was cut with. *)
Arrive(i) ==
    /\ i \in DOMAIN flight /\ ~ flight[i].arrived
    /\ flight[i].size <= PathLimit
    /\ flight' = [flight EXCEPT ![i].arrived = TRUE]
    /\ UNCHANGED <<block, ceiling, preGrowth, sinceGrowth, batches, atCeiling, reprobe>>
    /\ UNCHANGED probeHistory

Confirmed == {n \in 0 .. Len(flight) : \A i \in 1 .. n : flight[i].arrived}
GapSeen == \E j \in DOMAIN flight : flight[j].arrived /\ \E i \in 1 .. j - 1 : ~ flight[i].arrived

(* Wrong variant: the stretch counted before a failed probe still counts. *)
OnLossUnreset(since, top) ==
    LET failed == preGrowth # 0 /\ since < CleanToGrow
    IN  /\ atCeiling' = atCeiling
        /\ ceiling' = IF failed THEN preGrowth ELSE top
        /\ reprobe' = IF failed THEN Lesser(2 * reprobe, LastReprobe) ELSE reprobe
        /\ failCeiling' = IF failed THEN preGrowth ELSE failCeiling
        /\ due' = IF failed THEN reprobe' ELSE due
        /\ rest' = IF failed THEN 0 ELSE rest
        /\ preGrowth' = 0 /\ block' = 1 /\ batches' = 0 /\ sinceGrowth' = since

(* A NACK came: back to the configured size, and below the size just grown to. *)
OnLoss(since, top) ==
    LET failed == preGrowth # 0 /\ since < CleanToGrow
    IN  /\ atCeiling' = 0
        /\ ceiling' = IF failed THEN preGrowth ELSE top
        /\ reprobe' = IF failed THEN Lesser(2 * reprobe, LastReprobe) ELSE reprobe
        /\ failCeiling' = IF failed THEN preGrowth ELSE failCeiling
        /\ due' = IF failed THEN reprobe' ELSE due
        /\ rest' = IF failed THEN 0 ELSE rest
        /\ preGrowth' = 0 /\ block' = 1 /\ batches' = 0 /\ sinceGrowth' = since

(* No NACK: grow after a run of iterations that advanced the base. *)
OnClean(since, top, adv) ==
    LET run == IF adv THEN Lesser(batches + 1, CleanToGrow) ELSE batches
        grow == adv /\ run >= CleanToGrow /\ block < top
    IN  /\ ceiling' = top
        /\ batches' = IF grow THEN 0 ELSE run
        /\ preGrowth' = IF grow THEN block ELSE preGrowth
        /\ sinceGrowth' = IF grow THEN 0 ELSE since
        /\ block' = IF grow THEN Lesser(top, 2 * block) ELSE block
        /\ rest' = IF adv THEN Lesser(rest + 1, LastReprobe) ELSE rest
        /\ UNCHANGED <<reprobe, failCeiling, due>>

(* One iteration of the loop, after its ACKs: the base moves over what has
   been confirmed; a long enough clean stretch lifts a lowered ceiling. *)
Iterate ==
    \E n \in Confirmed, lost \in BOOLEAN :
        LET adv == n > 0
            since == IF adv THEN Lesser(sinceGrowth + 1, CleanToGrow) ELSE sinceGrowth
            counting == adv /\ ceiling < MtuCeiling
            lift == counting /\ atCeiling + 1 >= reprobe
            top == IF lift THEN MtuCeiling ELSE ceiling
        IN  /\ \A m \in Confirmed : m <= n
            /\ lost => GapSeen
            /\ flight' = SubSeq(flight, n + 1, Len(flight))
            /\ IF lost THEN OnLoss(since, top)
               ELSE /\ atCeiling' = IF lift THEN 0 ELSE IF counting THEN atCeiling + 1 ELSE atCeiling
                    /\ OnClean(since, top, adv)

SizeNext == SendSized \/ (\E i \in 1 .. MaxInFlight : Arrive(i)) \/ Iterate

(* The loop runs, it sends while there is room, and a block that is resent
   again and again and that the path can carry arrives in the end. *)
SizeFairness ==
    /\ WF_sizeVars(SendSized)
    /\ WF_sizeVars(Iterate)
    /\ \A i \in 1 .. MaxInFlight : WF_sizeVars(Arrive(i))

SizeSpec == SizeInit /\ [][SizeNext]_sizeVars /\ SizeFairness

-----------------------------------------------------------------------------
(* A size that was lost right after growing to it is not tried again before
   the clean stretch set then has passed, through later losses, smaller
   failed probes and further growth: one bad size does not make the lane
   swing between growing and resetting (transfer.cpp:1662-1668). *)
FailedSizeRests == block > failCeiling => rest >= due

(* The same comment: "a loss right after a growth step makes the previous size
   a ceiling: on a path that fragments or drops large datagrams the size
   settles".  A lane that has sent a block the path drops for its size comes
   to a ceiling the path can carry. *)
LostSizeLowersCeiling ==
    (\E i \in DOMAIN flight : flight[i].size > PathLimit) ~> (ceiling <= PathLimit)
=============================================================================
