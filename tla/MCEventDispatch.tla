--------------------------- MODULE MCEventDispatch ---------------------------
(***************************************************************************)
(* EventDispatch on small instances.  Shared: one group message that       *)
(* reaches two bots, hence two tasks with one event id, and two handlers   *)
(* of which one serves both bots.  Stream: two messages for one bot, the   *)
(* wrapper of the first backdated by less than the largest tweak.          *)
(***************************************************************************)
EXTENDS EventDispatch, TLC

CONSTANTS t1, t2, b1, b2, i1, i2, h1, h2, k1

MCTasks == {t1, t2}
OneBot == {b1}
TwoBots == {b1, b2}
OneId == {i1}
TwoIds == {i1, i2}
OneHandler == {h1}
TwoHandlers == {h1, h2}
OneBucket == {k1}
NoTasks == {}

SharedBotOf == t1 :> b1 @@ t2 :> b2
SharedIdOf == t1 :> i1 @@ t2 :> i1
SharedSubscribed == h1 :> {b1, b2} @@ h2 :> {b1}
SharedBucketOf == i1 :> k1
OneSubscribed == h1 :> {b1}

StreamBotOf == t1 :> b1 @@ t2 :> b1
StreamIdOf == t1 :> i1 @@ t2 :> i2
StreamBucketOf == i1 :> k1 @@ i2 :> k1
StreamTimestamp == t1 :> 1 @@ t2 :> 3
StreamWrapTime == t1 :> 0 @@ t2 :> 3
=============================================================================
