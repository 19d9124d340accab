---------------------------- MODULE EventDelivery ----------------------------
(***************************************************************************)
(* What dispatch promises for an event, without locks, trackers, channels, *)
(* counters or cursors in memory: it asks some of the handlers that serve  *)
(* the event's bot, one wire event for one bot at a time; it hears each of *)
(* them once at most; the event is concluded when all that were asked were *)
(* heard, or when its deadline passes while an answer is still owed, and   *)
(* not if one of them defers; only concluded events move the cursor of     *)
(* their bot; and after a stop every event is seen again that the cursor   *)
(* does not exclude.                                                       *)
(***************************************************************************)
EXTENDS Integers

CONSTANTS Tasks, Bots, Handlers, BotOf, IdOf, Timestamp, WrapTime, GroupTasks,
          Subscribed, Tweak, NoCursor

VARIABLES
    up,         \* the daemon runs
    stage,      \* what has become of each event
    asked,      \* handlers an event is for
    heard,      \* handlers whose answer was counted
    concluded,  \* history: events that were concluded
    cursor      \* the time each bot resumes from

deliveryVars == <<up, stage, asked, heard, concluded, cursor>>

Init ==
    /\ up = TRUE
    /\ stage = [t \in Tasks |-> "waiting"]
    /\ asked = [t \in Tasks |-> {}]
    /\ heard = [t \in Tasks |-> {}]
    /\ concluded = {}
    /\ cursor = [b \in Bots |-> NoCursor]

Moves(t, from, to) ==
    /\ up /\ stage[t] = from
    /\ stage' = [stage EXCEPT ![t] = to]

\* A group message may be refused: a duplicate, or over the rate of its group.
Refuse(t) ==
    /\ t \in GroupTasks /\ Moves(t, "waiting", "dropped")
    /\ UNCHANGED <<up, asked, heard, concluded, cursor>>

\* Some of the handlers that serve the bot will be asked.
Ask(t) ==
    /\ Moves(t, "waiting", "locking")
    /\ \E hs \in SUBSET {h \in Handlers : BotOf[t] \in Subscribed[h]} :
          asked' = [asked EXCEPT ![t] = hs]
    /\ UNCHANGED <<up, heard, concluded, cursor>>

\* One wire event is open for one bot at a time.
Open(t) ==
    /\ Moves(t, "locking", "collecting")
    /\ \A u \in Tasks : stage[u] = "collecting" => IdOf[u] # IdOf[t]
    /\ UNCHANGED <<up, asked, heard, concluded, cursor>>

Hear(t, h) ==
    /\ up /\ stage[t] = "collecting" /\ h \in asked[t] \ heard[t]
    /\ heard' = [heard EXCEPT ![t] = @ \cup {h}]
    /\ UNCHANGED <<up, stage, asked, concluded, cursor>>

Defer(t) ==
    /\ Moves(t, "collecting", "deferred") /\ heard[t] # asked[t]
    /\ UNCHANGED <<up, asked, heard, concluded, cursor>>

Conclude(t) ==
    /\ \/ Moves(t, "collecting", "answered") /\ heard[t] = asked[t]
       \/ Moves(t, "collecting", "expired") /\ heard[t] # asked[t]
    /\ concluded' = concluded \cup {t}
    /\ UNCHANGED <<up, asked, heard, cursor>>

Persist(t) ==
    /\ up /\ t \in concluded
    /\ cursor' = [cursor EXCEPT ![BotOf[t]] = Timestamp[t]]
    /\ UNCHANGED <<up, stage, asked, heard, concluded>>

Stop ==
    /\ up /\ up' = FALSE
    /\ UNCHANGED <<stage, asked, heard, concluded, cursor>>

\* What the relays are asked for again.
Resumed(t) ==
    \/ cursor[BotOf[t]] = NoCursor
    \/ WrapTime[t] >= cursor[BotOf[t]] - Tweak

Resume ==
    /\ ~up /\ up' = TRUE
    /\ stage' = [t \in Tasks |-> IF Resumed(t) THEN "waiting" ELSE "skipped"]
    /\ asked' = [t \in Tasks |-> {}]
    /\ heard' = [t \in Tasks |-> {}]
    /\ UNCHANGED <<concluded, cursor>>

EventStep(t) ==
    \/ Refuse(t) \/ Ask(t) \/ Open(t) \/ Defer(t) \/ Conclude(t) \/ Persist(t)
    \/ \E h \in Handlers : Hear(t, h)

Next == Stop \/ Resume \/ \E t \in Tasks : EventStep(t)

Spec == Init /\ [][Next]_deliveryVars
=============================================================================
