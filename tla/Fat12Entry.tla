----------------------------- MODULE Fat12Entry -----------------------------
(***************************************************************************)
(* Twelve-bit FAT entries: fat12_ent_get and fat12_ent_put of              *)
(* fs/fat/src/fatent.c.  Entries 2k and 2k + 1 lie in three bytes; both    *)
(* handlers find the first and the second of the two bytes of an entry at  *)
(* 3k + entry % 2 (fat12_ent_blocknr).  One such pair of entries is the    *)
(* whole state: other pairs share no byte with it.                         *)
(*                                                                         *)
(* A half byte is a number below H, 16 in the code, so that TLC can go     *)
(* through every content of the bytes with a smaller one.                  *)
(***************************************************************************)
EXTENDS Integers

CONSTANT H

ASSUME HalfAssumption == H \in Nat \ {0, 1}

Byte == 0 .. H * H - 1

Value == 0 .. H * H * H - 1

Even == 0
Odd  == 1

VARIABLES p,     \* the three bytes
          last   \* history: the last fat12_ent_put

vars == <<p, last>>

Never == [entry |-> -1, new |-> 0]

TypeOK ==
  /\ p \in [0 .. 2 -> Byte]
  /\ last \in [entry : {Even, Odd}, new : Value] \cup {Never}

Init ==
  /\ p \in [0 .. 2 -> Byte]
  /\ last = Never

\* fat12_ent_get
Get(e, b) ==
  IF e = Odd THEN b[2] * H + (b[1] % H)
             ELSE (b[1] * H * H + b[0]) % (H * H * H)

\* Mutant of Put: the odd entry goes where the FAT has it, without a matching
\* fat12_ent_get.
PutStandardOdd(e, new, b) ==
  IF e = Odd
  THEN [b EXCEPT ![1] = (new % H) * H + (@ % H), ![2] = new \div H]
  ELSE [b EXCEPT ![0] = new % (H * H),
                 ![1] = (@ \div H) * H + ((new \div (H * H)) % H)]

\* fat12_ent_put
Put(e, new, b) ==
  IF e = Odd
  THEN [b EXCEPT ![1] = (@ \div H) * H + (new % H),
                 ![2] = (new \div H) % (H * H)]
  ELSE [b EXCEPT ![0] = new % (H * H),
                 ![1] = (@ \div H) * H + ((new \div (H * H)) % H)]

EntPut(e, new) ==
  /\ p' = Put(e, new, p)
  /\ last' = [entry |-> e, new |-> new]

Next == \E e \in {Even, Odd}, new \in Value : EntPut(e, new)

Spec == Init /\ [][Next]_vars

-----------------------------------------------------------------------------

\* What fat12_ent_put has written fat12_ent_get reads back.
ReadsBack == last # Never => Get(last.entry, p) = last.new
=============================================================================
