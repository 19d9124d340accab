--------------------------- MODULE MCAttachments ---------------------------
(* Two rumors and one payload; the second rumor is as large as the cap     *)
(* allows and reports its ciphertext size.                                 *)
EXTENDS Attachments

CONSTANTS r1, r2, p1

const_Rumors == {r1, r2}
const_Payloads == {p1}
const_Size == [x \in {r1, r2, p1} |-> IF x = r2 THEN 2 ELSE 1]
const_Reported == [x \in {r1, r2} |-> IF x = r2 THEN 3 ELSE 0]
=============================================================================
