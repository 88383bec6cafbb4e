--------------------------- MODULE MCBlockCatalog ---------------------------
(***************************************************************************)
(* Three blocks for BlockCatalog.tla: 1 is the implementation of the       *)
(* canonical type 1, 2 an alias of it, which is the better browse entry    *)
(* although it sorts first, 3 a block that sorts before both.              *)
(***************************************************************************)
EXTENDS BlockCatalog

MCDescriptors ==
    << [canonical |-> 1, category |-> 2, name |-> 2, length |-> 3],
       [canonical |-> 1, category |-> 2, name |-> 1, length |-> 2],
       [canonical |-> None, category |-> 1, name |-> 1, length |-> 1] >>

(* The descriptors of test/block_catalog_service_test.cpp:14-34: 2 is      *)
(* "signal_source_f", 3 "signal_source_f_alias" of the same type.          *)
MCAliasDescriptors ==
    << [canonical |-> None, category |-> 1, name |-> 1, length |-> 1],
       [canonical |-> 7, category |-> 2, name |-> 2, length |-> 2],
       [canonical |-> 7, category |-> 2, name |-> 2, length |-> 3] >>

=============================================================================
