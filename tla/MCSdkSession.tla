---------------------------- MODULE MCSdkSession ----------------------------
(* One bot over HTTP; up to two of its registrations and five channels at  *)
(* a time.                                                                 *)
EXTENDS SdkSession

CONSTANTS i1, i2

const_Ids == {i1, i2}
const_Channels == 1 .. 5
=============================================================================
