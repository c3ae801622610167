--------------------------- MODULE FrisbeeService ---------------------------
(***************************************************************************)
(* What the frisbee server promises about blocks, without its queue: a     *)
(* block that has been asked for stays owed until it is sent, and only     *)
(* blocks that are owed are sent.  Blocks of a chunk are given up when one *)
(* of them is not in the file.                                             *)
(***************************************************************************)
CONSTANTS Blocks,     \* the blocks that can be asked for, <<chunk, block>>
          File        \* those of the file
VARIABLES owed,       \* blocks asked for and not sent since
          sent        \* the block sent by the last step, or << >>

vars == <<owed, sent>>

Init == owed = {} /\ sent = <<>>

\* More blocks are asked for, or none.
Ask ==
    /\ sent' = <<>>
    /\ owed \subseteq owed'
    /\ owed' \subseteq owed \union Blocks

\* A block that is sent may have been asked for again since it was taken up.
Send ==
    /\ sent' \in owed
    /\ owed \ {sent'} \subseteq owed'
    /\ owed' \subseteq owed

\* A read past the end of the file ends a range of blocks of one chunk.
Refuse ==
    /\ sent' = <<>>
    /\ owed' \subseteq owed
    /\ \E stray \in owed \ File :
          \A b \in owed \ owed' : b[1] = stray[1]

Next == Ask \/ Send \/ Refuse

Spec == Init /\ [][Next]_vars

=============================================================================
