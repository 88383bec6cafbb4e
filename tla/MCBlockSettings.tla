--------------------------- MODULE MCBlockSettings ---------------------------
(***************************************************************************)
(* Two blocks for BlockSettings.tla. The name of the second is the unique  *)
(* name of the first, and a request for it goes to the second.             *)
(***************************************************************************)
EXTENDS BlockSettings

MCRuntimeBlocks ==
    << [name |-> "src0", uniqueName |-> "Source#0", settingsName |-> "src0"],
       [name |-> "Source#0", uniqueName |-> "Sink#0", settingsName |-> "sink"] >>

MCUpdates ==
    {[op |-> "immediate", value |-> 2, array |-> FALSE],
     [op |-> "staged", value |-> 3, array |-> FALSE],
     [op |-> "staged", value |-> 0, array |-> TRUE]}

(* Eight values of a word, of which 6 is not a signed integer.             *)
MCWideUpdates == {[op |-> "immediate", value |-> 6, array |-> FALSE]}

=============================================================================
