------------------------------ MODULE Formats -------------------------------
(***************************************************************************)
(* The formats on the volume, each by itself: a behavior is one of a pair  *)
(* of 12-bit FAT entries, of the time stamps, or of the mount of a volume. *)
(***************************************************************************)
EXTENDS Fat12Entry

CONSTANTS Starts, Hours, Minutes, Seconds, Years,  \* of FatTime
          BootSectors                              \* of FatLayout

VARIABLES turn,      \* which of the three
          tm,        \* of FatTime
          boot, sbi  \* of FatLayout

Time == INSTANCE FatTime

Layout == INSTANCE FatLayout

SomeTime == [day |-> [year |-> 80, mon |-> 0, mday |-> 1], clock |-> [hour |-> 0, min |-> 0, sec |-> 0]]

FormatsInit ==
  \/ /\ turn = "entry" /\ Init
     /\ tm = SomeTime /\ boot = 0 /\ sbi = 0
  \/ /\ turn = "time" /\ Time!Init
     /\ p = 0 /\ last = Never /\ boot = 0 /\ sbi = 0
  \/ /\ turn = "layout" /\ Layout!Init
     /\ p = 0 /\ last = Never /\ tm = SomeTime

FormatsNext ==
  /\ UNCHANGED turn
  /\ \/ turn = "entry" /\ Next /\ UNCHANGED <<tm, boot, sbi>>
     \/ turn = "time" /\ Time!Next /\ UNCHANGED <<p, last, boot, sbi>>
     \/ turn = "layout" /\ Layout!Next /\ UNCHANGED <<p, last, tm>>

FormatsSpec == FormatsInit /\ [][FormatsNext]_<<turn, p, last, tm, boot, sbi>>

\* fat_time_unix2fat gives a later time no earlier stamp, and within its range
\* a stamp of its own every two seconds.
StampsOrdered == Time!StampsOrdered

\* What fat_set_sb_info divides a volume into does not overlap: FAT, root
\* directory and clusters, each sector as the code finds it.
SectorsApart == turn = "layout" => Layout!SectorsApart
=============================================================================
