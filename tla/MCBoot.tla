------------------------------- MODULE MCBoot -------------------------------
(* Seven pages of memory in every arrangement of three types, good and bad kernel
   files, and displays that share, straddle or leave the listed memory.          *)
EXTENDS Boot

MCMemories ==
    {[page \in Pages |->
        CASE page = 0 -> "conventional"
          [] page \in DOMAIN middle -> middle[page]
          [] OTHER -> "absent"] :
        middle \in [{4, 8, 12, 16, 20, 24, 28} -> {"conventional", "bootServices", "absent"}]}

Segment(start, size, executable) ==
    [load |-> TRUE, executable |-> executable, offset |-> 8, virtual |-> start, start |-> start,
     fileSize |-> 1, size |-> size, align |-> 4]

Note == [Segment(1, 1, FALSE) EXCEPT !.load = FALSE]

File(entry, headers) ==
    [elf64 |-> TRUE, entry |-> entry, size |-> 12, table |-> 2, headers |-> headers]

MCImages ==
    {File(5, <<Segment(4, 3, TRUE)>>),
     File(5, <<Note, Segment(8, 5, FALSE), Segment(4, 2, TRUE)>>),
     File(9, <<Segment(8, 2, TRUE), Segment(4, 5, FALSE)>>),
     File(7, <<Segment(4, 3, TRUE)>>),
     File(5, <<Segment(4, 3, TRUE), Segment(8, 2, FALSE), Segment(12, 2, FALSE)>>),
     File(5, <<Segment(4, 2, TRUE), Segment(6, 2, FALSE)>>)}

Display(start, bytes) ==
    [linear |-> TRUE, start |-> start, bytes |-> bytes, width |-> 1, height |-> 2, stride |-> 1]

MCDisplays ==
    {[Display(0, 0) EXCEPT !.linear = FALSE], Display(22, 2), Display(22, 3), Display(6, 2),
     Display(32, 1), Display(35, 3)}
=============================================================================
