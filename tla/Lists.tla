-------------------------------- MODULE Lists --------------------------------
(* Arrays from which elements are spliced by value.                         *)
EXTENDS Naturals, Sequences

(* The list without the elements of gone, in its order.                     *)
Without(list, gone) ==
    LET kept[i \in 0 .. Len(list)] ==
          IF i = 0 THEN <<>>
          ELSE IF list[i] \in gone THEN kept[i - 1] ELSE Append(kept[i - 1], list[i])
    IN  kept[Len(list)]
=============================================================================
