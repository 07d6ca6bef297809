------------------------------ MODULE RowArray ------------------------------
(***************************************************************************)
(* What a virtual array promises: rows that keep what was last written to  *)
(* them, sample by sample, however little of them is in memory.  A strip   *)
(* of rows is asked for at a time, to read or to write; the rows that are  *)
(* written must follow those that already are, without a gap.              *)
(***************************************************************************)
EXTENDS Integers

CONSTANTS Value, Zero, Undefined

VARIABLES content,  \* the samples of every row; Undefined: not written yet
          strip     \* what the last access made available, by row

Undef == {r \in DOMAIN content : \E k \in DOMAIN content[r] : content[r][k] = Undefined}
Gap(rows) == \E r \in Undef : r < CHOOSE s \in rows : \A t \in rows : s <= t

(* A row as a caller finds it, with zeros for what is not written.         *)
Shown(row) == [k \in DOMAIN row |-> IF row[k] = Undefined THEN Zero ELSE row[k]]

(* An array comes into being. *)
Create ==
  /\ \A r \in DOMAIN content' : \A k \in DOMAIN content'[r] : content'[r][k] = Undefined
  /\ strip' = <<>>

(* Reading gives the rows, and zeros for those not written, if at all.     *)
Read(rows) ==
  /\ strip' = [r \in rows |-> Shown(content[r])]
  /\ UNCHANGED content

(* Writing changes rows of the strip and no others; what is not changed    *)
(* keeps its value, or is zero.                                            *)
Write(rows) ==
  /\ ~Gap(rows)
  /\ \E changes \in [rows -> Value \cup {Undefined}] :
       content' = [r \in DOMAIN content |->
                     IF r \notin rows THEN content[r]
                     ELSE IF changes[r] # Undefined
                     THEN [k \in DOMAIN content[r] |-> changes[r][k]]
                     ELSE Shown(content[r])]
  /\ strip' = [r \in rows |-> content'[r]]

Refuse == strip' = <<>> /\ UNCHANGED content

Next ==
  \/ Create
  \/ \E rows \in (SUBSET DOMAIN content) \ {{}} : Read(rows) \/ Write(rows)
  \/ Refuse

Safety == strip = <<>> /\ [][Next]_<<content, strip>>
=============================================================================
