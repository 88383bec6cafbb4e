------------------------ MODULE StreamContractProofs ------------------------
(***************************************************************************)
(* Theorems about StreamContract.tla, for every graph an author can write: *)
(* any number of blocks, whatever their fields hold.                       *)
(***************************************************************************)
EXTENDS StreamContract, FunctionTheorems, FiniteSetTheorems,
        SequenceTheorems, WellFoundedInduction, TLAPS

-----------------------------------------------------------------------------
(* One block: what either side makes of its fields. *)

LEMMA Types ==
    ASSUME NEW b \in Block
    PROVE  /\ Parameters(b) \in [DOMAIN b.parameters -> Value \cup Map]
           /\ DOMAIN b.parameters = {"name", "stream", "stream_id", "transport",
                                     "payload_format", "endpoint"}
           /\ DOMAIN b = {"id", "block", "block_type", "instance_name", "name",
                          "parameters", "raw_parameters"}
<1>1. /\ b.parameters \in ParameterMap
      /\ b.raw_parameters \in ParameterMap
  BY DEF Block
<1>2. DOMAIN b.parameters = {"name", "stream", "stream_id", "transport",
                             "payload_format", "endpoint"}
  BY <1>1 DEF ParameterMap
<1>3. \A k \in DOMAIN b.parameters :
         b.parameters[k] \in Value \cup Map /\ b.raw_parameters[k] \in Value \cup Map
  BY <1>1, <1>2 DEF ParameterMap, Value, Field
<1> QED
  BY <1>2, <1>3 DEF Block, Parameters

(* What normalize_block writes, and nothing else, in terms of its input. *)
LEMMA Normalized ==
    ASSUME NEW b \in Block
    PROVE  LET name == b.id ?? (b.instance_name ?? b.name)
               old == Parameters(b)
               new == NormalizeBlock(b)
           IN  /\ new.id = b.block ??
                     (IF b.id = Missing /\ NonEmpty(b.block_type)
                      THEN b.block_type ELSE b.id)
               /\ new.instance_name = b.instance_name
               /\ new.parameters.name =
                     IF old.name = Missing /\ NonEmpty(name) THEN name ELSE old.name
               /\ new.parameters.endpoint = old.endpoint
               /\ "parameters" \in DOMAIN new
               /\ {"name", "endpoint"} \subseteq DOMAIN new.parameters
<1>1. DOMAIN Parameters(b) = DOMAIN b.parameters
  BY DEF Parameters
<1> QED
  BY <1>1, Types DEF NormalizeBlock

(* Both sides give the block of a managed stream one name, if that is clear. *)
LEMMA NamesAgree ==
    ASSUME NEW b \in Block, NonEmpty(InstanceName(b)), ~UnclearName(b)
    PROVE  RuntimeName(NormalizeBlock(b)) = InstanceName(b)
<1> DEFINE p == Parameters(b)
           name == b.id ?? (b.instance_name ?? b.name)
<1>1. RuntimeName(NormalizeBlock(b)) =
        (IF p.name = Missing /\ NonEmpty(name) THEN name ELSE p.name)
            ?? b.instance_name
  BY Normalized DEF RuntimeName
<1>2. CASE NonEmpty(p.name)
  BY <1>1, <1>2 DEF InstanceName, NonEmpty, ??
<1>3. CASE ~NonEmpty(p.name)
  <2>1. p.name = Missing
    BY <1>3 DEF UnclearName, NonEmpty
  <2>2. InstanceName(b) = name
    BY <1>3, <2>1 DEF InstanceName, UnclearName, NonEmpty, ??
  <2>3. NonEmpty(name)
    BY <2>2
  <2> QED
    BY <1>1, <2>1, <2>2, <2>3 DEF ??
<1> QED
  BY <1>2, <1>3

(* A block that can be loaded has a type for the contract as well. *)
LEMMA TypesAgree ==
    ASSUME NEW b \in Block, b.block # Empty,
           NormalizeBlock(b).id \in BlockTypes
    PROVE  NonEmpty(TypeName(b))
<1> DEFINE id == b.block ?? (IF b.id = Missing /\ NonEmpty(b.block_type)
                             THEN b.block_type ELSE b.id)
<1>1. NonEmpty(id)
  BY Normalized, FieldsDiffer DEF NonEmpty
<1>2. CASE b.block \notin {Other, Missing}
  BY <1>2 DEF TypeName, NonEmpty
<1>3. CASE b.block \in {Other, Missing} /\ b.id \notin {Other, Missing}
  BY <1>1, <1>3 DEF TypeName, NonEmpty, ??
<1>4. CASE b.block \in {Other, Missing} /\ b.id \in {Other, Missing}
  BY <1>1, <1>4, FieldsDiffer DEF TypeName, NonEmpty, ??
<1> QED
  BY <1>2, <1>3, <1>4

(* Handing an endpoint out changes no more than the endpoint. *)
LEMMA InjectionKeeps ==
    ASSUME NEW b \in Block, NEW bound
    PROVE  LET old == NormalizeBlock(b)
               new == InjectInto(old, bound)
           IN  new.id = old.id /\ RuntimeName(new) = RuntimeName(old)
BY Normalized DEF InjectInto, RuntimeName

-----------------------------------------------------------------------------
(* One graph. *)

Bound(bs) ==
    [i \in Managed(bs) |-> [plan |-> Descriptor(bs[i]), endpoint |-> i]]

ToRuntime(bs) == [i \in DOMAIN bs |-> NormalizeBlock(bs[i])]

Distinct(bs) ==
    \A i, j \in Managed(bs) :
        i # j => InstanceName(bs[i]) # InstanceName(bs[j])

Clear(bs) == \A i \in Managed(bs) : ~UnclearName(bs[i])

LEMMA PlacesAreNumbers ==
    ASSUME NEW bs \in Seq(Block)
    PROVE  /\ DOMAIN bs \subseteq Nat
           /\ Managed(bs) \subseteq DOMAIN bs
           /\ IsFiniteSet(Managed(bs))
           /\ \A i \in DOMAIN bs : bs[i] \in Block
<1>1. DOMAIN bs = 1 .. Len(bs) /\ Len(bs) \in Nat
  OBVIOUS
<1>2. IsFiniteSet(1 .. Len(bs))
  BY <1>1, FS_Interval
<1>3. Managed(bs) \in SUBSET (1 .. Len(bs))
  BY <1>1 DEF Managed
<1>4. IsFiniteSet(Managed(bs))
  BY <1>2, <1>3, FS_Subset
<1> QED
  BY <1>1, <1>3, <1>4

(* The ids of the managed streams differ, as the contract demands. *)
LEMMA IdsDiffer ==
    ASSUME NEW bs \in Seq(Block), ContractHolds(bs),
           NEW i \in Managed(bs), NEW j \in Managed(bs), i # j
    PROVE  StreamId(bs[i]) # StreamId(bs[j])
<1>1. i \in 1 .. Len(bs) /\ j \in 1 .. Len(bs) /\ Len(bs) \in Nat
  BY DEF Managed
<1>2. IsStream(bs[i]) /\ IsStream(bs[j]) /\ i \in DOMAIN bs /\ j \in DOMAIN bs
  BY DEF Managed
<1>3. CASE i < j
  <2>1. i \in 1 .. (j - 1)
    BY <1>1, <1>3
  <2> QED
    BY <1>2, <2>1 DEF ContractHolds
<1>4. CASE j < i
  <2>1. j \in 1 .. (i - 1)
    BY <1>1, <1>4
  <2> QED
    BY <1>2, <2>1 DEF ContractHolds
<1> QED
  BY <1>1, <1>3, <1>4

(* With clear and distinct names each managed block matches its own binding. *)
LEMMA OwnBinding ==
    ASSUME NEW bs \in Seq(Block), ContractHolds(bs), Distinct(bs), Clear(bs),
           NEW i \in Managed(bs)
    PROVE  /\ Matching(NormalizeBlock(bs[i]), Bound(bs)) = {i}
           /\ FirstMatch(NormalizeBlock(bs[i]), Bound(bs)) = {i}
<1>1. i \in DOMAIN bs /\ IsStream(bs[i]) /\ bs[i] \in Block /\ i \in Nat
  BY PlacesAreNumbers DEF Managed
<1>2. NonEmpty(InstanceName(bs[i]))
  BY <1>1 DEF ContractHolds, Valid
<1>3. RuntimeName(NormalizeBlock(bs[i])) = InstanceName(bs[i])
  BY <1>1, <1>2, NamesAgree DEF Clear
<1>4. \A k \in Managed(bs) :
         Bound(bs)[k].plan.block_instance_name = InstanceName(bs[k])
  BY DEF Bound, Descriptor
<1>5. DOMAIN Bound(bs) = Managed(bs)
  BY DEF Bound
<1>6. Matching(NormalizeBlock(bs[i]), Bound(bs)) = {i}
  BY <1>2, <1>3, <1>4, <1>5 DEF Matching, Distinct
<1>7. FirstMatch(NormalizeBlock(bs[i]), Bound(bs)) = {i}
  BY <1>1, <1>6 DEF FirstMatch
<1> QED
  BY <1>6, <1>7

(* Then inject_stream_bindings counts as many streams as there are. *)
LEMMA InjectedWhole ==
    ASSUME NEW bs \in Seq(Block), ContractHolds(bs), Distinct(bs), Clear(bs)
    PROVE  ~InjectionThrows(ToRuntime(bs), Bound(bs))
<1> DEFINE id == [k \in Managed(bs) |-> StreamId(bs[k])]
           ids == InjectedIds(ToRuntime(bs), Bound(bs))
<1>1. DOMAIN Bound(bs) = Managed(bs)
  BY DEF Bound
<1>2. \A k \in Managed(bs) : Bound(bs)[k].plan.stream_id = id[k]
  BY DEF Bound, Descriptor
<1>3. UNION {FirstMatch(ToRuntime(bs)[i], Bound(bs)) :
                i \in DOMAIN ToRuntime(bs)} = Managed(bs)
  <2>1. \A i \in DOMAIN bs : ToRuntime(bs)[i] = NormalizeBlock(bs[i])
    BY DEF ToRuntime
  <2>2. \A i \in DOMAIN bs : FirstMatch(ToRuntime(bs)[i], Bound(bs)) \subseteq Managed(bs)
    BY <1>1 DEF FirstMatch, Matching
  <2>3. \A i \in Managed(bs) : i \in FirstMatch(ToRuntime(bs)[i], Bound(bs))
    BY <2>1, OwnBinding, PlacesAreNumbers
  <2>4. DOMAIN ToRuntime(bs) = DOMAIN bs
    BY DEF ToRuntime
  <2>5. Managed(bs) \subseteq DOMAIN bs
    BY PlacesAreNumbers
  <2> QED
    BY <2>2, <2>3, <2>4, <2>5
<1>4. ids = {id[k] : k \in Managed(bs)}
  <2>1. ids = {Bound(bs)[k].plan.stream_id : k \in Managed(bs)}
    BY <1>3 DEF InjectedIds
  <2> QED
    BY <2>1, <1>2
<1>5. id \in Bijection(Managed(bs), ids)
  <2>1. \A i, j \in Managed(bs) : id[i] = id[j] => i = j
    BY IdsDiffer
  <2>2. id \in [Managed(bs) -> ids]
    BY <1>4
  <2>3. \A x \in ids : \E k \in Managed(bs) : id[k] = x
    BY <1>4
  <2> QED
    BY <2>1, <2>2, <2>3, Fun_IsBij
<1>6. Cardinality(ids) = Cardinality(Managed(bs))
  BY <1>5, PlacesAreNumbers, FS_Bijection, Fun_ExistsBij
<1> QED
  BY <1>1, <1>6 DEF InjectionThrows

-----------------------------------------------------------------------------
(* The phases of prepare: what each has, as a function of the graph alone.  *)

Refused == {"authoring", "refused"}

(* The inductive invariant. From the binding on, contract, bindings and     *)
(* runtime blocks are those of the authored blocks, which no longer change. *)
IInv ==
    /\ phase \in Phases
    /\ blocks \in Seq(Block)
    /\ connection \in AuthoredConnections
    /\ \A i \in DOMAIN blocks : blocks[i] \in AuthoredBlocks[i]
    /\ phase \in Refused => bindings = <<>>
    /\ phase \notin Refused =>
            ContractHolds(blocks) /\ bindings = Bound(blocks)
    /\ phase \in {"normalized", "injection failed"} =>
            runtimeBlocks = ToRuntime(blocks)
    /\ phase = "injection failed" => InjectionThrows(runtimeBlocks, bindings)
    /\ phase \in {"injected", "loaded"} =>
            runtimeBlocks = [i \in DOMAIN blocks |->
                                InjectInto(NormalizeBlock(blocks[i]), bindings)]
    /\ phase = "loaded" =>
            \A i \in DOMAIN blocks : runtimeBlocks[i].id \in BlockTypes

LEMMA InitHolds == Init => IInv
BY DEF Init, IInv, Phases, Refused

LEMMA NextKeeps ==
    ASSUME IInv, [Next]_vars
    PROVE  IInv'
<1>1. CASE AddBlock
  <2>1. PICK b \in AuthoredBlocks[Len(blocks) + 1] : blocks' = Append(blocks, b)
    BY <1>1 DEF AddBlock
  <2>2. b \in Block
    BY <1>1, <2>1, BlocksAssumption DEF AddBlock
  <2>3. blocks \in Seq(Block)
    BY DEF IInv
  <2>4. blocks' \in Seq(Block)
    BY <2>1, <2>2, <2>3, AppendProperties
  <2>5. \A i \in DOMAIN blocks' : blocks'[i] \in AuthoredBlocks[i]
    <3>1. blocks' = Append(blocks, b) /\ DOMAIN blocks = 1 .. Len(blocks)
          /\ Len(blocks) \in Nat
      BY <2>1, <2>3
    <3>2. /\ DOMAIN blocks' = 1 .. (Len(blocks) + 1)
          /\ \A i \in 1 .. Len(blocks) : blocks'[i] = blocks[i]
          /\ blocks'[Len(blocks) + 1] = b
      BY <2>2, <2>3, <3>1, AppendProperties
    <3>3. \A i \in 1 .. (Len(blocks) + 1) : i \in 1 .. Len(blocks) \/ i = Len(blocks) + 1
      BY <3>1
    <3> QED
      BY <3>1, <3>2, <3>3 DEF IInv
  <2> QED
    BY <1>1, <2>4, <2>5 DEF AddBlock, IInv, Refused, Phases
<1>2. CASE Refuse
  BY <1>2 DEF Refuse, IInv, Refused, Phases
<1>3. CASE Bind
  <2>1. bindings' = Bound(blocks)
    BY <1>3 DEF Bind, DerivePlan, Bound
  <2> QED
    BY <1>3, <2>1 DEF Bind, IInv, Refused, Phases
<1>4. CASE Normalize
  BY <1>4 DEF Normalize, IInv, Refused, Phases, ToRuntime
<1>5. CASE NormalizeThrows
  BY <1>5 DEF NormalizeThrows, IInv, Refused, Phases
<1>6. CASE Inject
  <2>1. runtimeBlocks = ToRuntime(blocks)
    BY <1>6 DEF Inject, IInv
  <2>2. DOMAIN runtimeBlocks = DOMAIN blocks
    BY <2>1 DEF ToRuntime
  <2>3. \A i \in DOMAIN blocks : runtimeBlocks[i] = NormalizeBlock(blocks[i])
    BY <2>1 DEF ToRuntime
  <2>4. runtimeBlocks' = [i \in DOMAIN blocks |->
                            InjectInto(NormalizeBlock(blocks[i]), bindings)]
    BY <1>6, <2>2, <2>3 DEF Inject
  <2>5. /\ phase' = "injected"
        /\ UNCHANGED <<blocks, bindings, connection, runtimeConnection>>
        /\ phase \notin Refused /\ phase = "normalized"
    BY <1>6 DEF Inject, Refused
  <2> QED
    BY <2>4, <2>5 DEF IInv, Refused, Phases
<1>7. CASE InjectThrows
  BY <1>7 DEF InjectThrows, IInv, Refused, Phases
<1>8. CASE Load
  <2>1. DOMAIN runtimeBlocks = DOMAIN blocks
    BY <1>8 DEF Load, IInv
  <2> QED
    BY <1>8, <2>1 DEF Load, IInv, Refused, Phases
<1>9. CASE LoadThrows
  BY <1>9 DEF LoadThrows, IInv, Refused, Phases
<1>10. CASE UNCHANGED vars
  BY <1>10 DEF vars, IInv, Refused, Phases
<1> QED
  BY <1>1, <1>2, <1>3, <1>4, <1>5, <1>6, <1>7, <1>8, <1>9, <1>10 DEF Next

LEMMA Invariant == Spec => []IInv
BY InitHolds, NextKeeps, PTL DEF Spec

-----------------------------------------------------------------------------
(* The properties. *)

LEMMA UnambiguousIsClear ==
    ASSUME IInv, ~Ambiguous
    PROVE  Distinct(blocks) /\ Clear(blocks)
BY DEF Ambiguous, SharedName, Distinct, Clear, Managed

(* Every phase has the data that belongs to it; no two streams of a session *)
(* share an id or a path.                                                   *)
THEOREM TypeCorrect == Spec => []TypeOK
<1>1. IInv => TypeOK
  <2> SUFFICES ASSUME IInv,
                      NEW k \in DOMAIN bindings, NEW l \in DOMAIN bindings, k # l
               PROVE  /\ bindings[k].plan.stream_id # bindings[l].plan.stream_id
                      /\ bindings[k].plan.path # bindings[l].plan.path
    BY DEF TypeOK, IInv, Refused
  <2>1. phase \notin Refused
    <3>1. bindings # <<>>
      OBVIOUS
    <3> QED
      BY <3>1 DEF IInv
  <2>2. /\ blocks \in Seq(Block) /\ ContractHolds(blocks)
        /\ bindings = Bound(blocks)
    BY <2>1 DEF IInv
  <2>3. k \in Managed(blocks) /\ l \in Managed(blocks)
    BY <2>2 DEF Bound
  <2>4. StreamId(blocks[k]) # StreamId(blocks[l])
    BY <2>2, <2>3, IdsDiffer
  <2> QED
    BY <2>2, <2>3, <2>4 DEF Bound, Descriptor, StreamPath
<1> QED
  BY <1>1, Invariant, PTL

(* A plan that satisfies the contract is injected whole unless two managed  *)
(* blocks share a name or the rules for names part ways: the throw at the   *)
(* end of inject_stream_bindings is not reached by any other graph.         *)
THEOREM InjectedUnlessAmbiguous == Spec => []InjectionFailsOnlyWhenAmbiguous
<1>1. IInv => InjectionFailsOnlyWhenAmbiguous
  <2> SUFFICES ASSUME IInv, phase = "injection failed", ~Ambiguous
               PROVE  FALSE
    BY DEF InjectionFailsOnlyWhenAmbiguous
  <2>1. /\ blocks \in Seq(Block) /\ ContractHolds(blocks)
        /\ InjectionThrows(ToRuntime(blocks), Bound(blocks))
    BY DEF IInv, Refused
  <2> QED
    BY <2>1, UnambiguousIsClear, InjectedWhole
<1> QED
  BY <1>1, Invariant, PTL

(* Whatever keys a block is written with: if it can be loaded and declares  *)
(* a stream, the control plane manages that stream.                         *)
THEOREM NoUnmanagedStream == Spec => []DeclaredIsManaged
<1>1. IInv => DeclaredIsManaged
  <2> SUFFICES ASSUME IInv, phase = "loaded", NEW i \in DOMAIN blocks,
                      Declares(Parameters(blocks[i])), blocks[i].block # Empty
               PROVE  /\ i \in DOMAIN bindings
                      /\ bindings[i].plan.stream_id = StreamId(blocks[i])
    BY DEF DeclaredIsManaged
  <2>1. blocks[i] \in Block
    BY PlacesAreNumbers DEF IInv
  <2>2. runtimeBlocks[i] = InjectInto(NormalizeBlock(blocks[i]), bindings)
    BY DEF IInv
  <2>3. NormalizeBlock(blocks[i]).id \in BlockTypes
    BY <2>1, <2>2, InjectionKeeps DEF IInv
  <2>4. IsStream(blocks[i])
    BY <2>1, <2>3, TypesAgree DEF IsStream
  <2>5. i \in Managed(blocks)
    BY <2>4 DEF Managed
  <2>6. bindings = Bound(blocks)
    BY DEF IInv, Refused
  <2> QED
    BY <2>5, <2>6 DEF Bound, Descriptor
<1> QED
  BY <1>1, Invariant, PTL

(* A set of places that is not empty has a first one. *)
LEMMA FirstMatchExists ==
    ASSUME NEW b, NEW bound, DOMAIN bound \subseteq Nat, Matching(b, bound) # {}
    PROVE  \E k \in Matching(b, bound) : k \in FirstMatch(b, bound)
<1>1. Matching(b, bound) \subseteq Nat
  BY DEF Matching
<1>2. PICK k \in Matching(b, bound) :
         \A l \in Matching(b, bound) : <<l, k>> \notin OpToRel(<, Nat)
  BY <1>1, NatLessThanWellFounded, WFMin
<1>3. \A l \in Matching(b, bound) : ~(l < k)
  BY <1>1, <1>2 DEF OpToRel
<1>4. \A l \in Matching(b, bound) : k <= l
  BY <1>1, <1>3
<1> QED
  BY <1>4 DEF FirstMatch

(* Unless names are ambiguous, every managed block of the graph that is     *)
(* loaded has the endpoint of its own stream, and every other one keeps the *)
(* authored endpoint or shares the one of a managed block of its name.      *)
THEOREM EndpointsArrive == Spec => []EndpointsReachTheirBlocks
<1>1. IInv => EndpointsReachTheirBlocks
  <2> SUFFICES ASSUME IInv, phase = "loaded", ~Ambiguous, NEW i \in DOMAIN blocks
               PROVE  LET endpoint == runtimeBlocks[i].parameters.endpoint
                          namesakes == {k \in DOMAIN bindings :
                              bindings[k].plan.block_instance_name =
                                  RuntimeName(runtimeBlocks[i])}
                      IN IF IsStream(blocks[i])
                         THEN endpoint = i
                         ELSE \/ endpoint = Parameters(blocks[i]).endpoint
                              \/ endpoint \in namesakes
    BY DEF EndpointsReachTheirBlocks
  <2> DEFINE b == blocks[i]
             n == NormalizeBlock(blocks[i])
             r == runtimeBlocks[i]
  <2>1. /\ blocks \in Seq(Block) /\ ContractHolds(blocks)
        /\ bindings = Bound(blocks)
        /\ r = InjectInto(n, bindings)
    BY DEF IInv, Refused
  <2>2. b \in Block /\ Managed(blocks) \subseteq Nat
    BY <2>1, PlacesAreNumbers
  <2>3. DOMAIN bindings = Managed(blocks)
    BY <2>1 DEF Bound
  <2>4. \A k \in DOMAIN bindings : bindings[k].endpoint = k
    BY <2>1, <2>3 DEF Bound
  <2>5. CASE Matching(n, bindings) = {}
    <3>1. r = n
      BY <2>1, <2>5 DEF InjectInto
    <3>2. ~IsStream(b)
      BY <2>1, <2>5, OwnBinding, UnambiguousIsClear DEF Managed
    <3>3. r.parameters.endpoint = Parameters(b).endpoint
      BY <2>2, <3>1, Normalized
    <3> QED
      BY <3>2, <3>3
  <2>6. CASE Matching(n, bindings) # {}
    <3> DEFINE k == CHOOSE l \in FirstMatch(n, bindings) : TRUE
    <3>1. k \in FirstMatch(n, bindings)
      BY <2>2, <2>3, <2>6, FirstMatchExists
    <3>2. k \in Matching(n, bindings)
      BY <3>1 DEF FirstMatch
    <3>3. r = [n EXCEPT !.parameters.endpoint = bindings[k].endpoint]
      BY <2>1, <2>6 DEF InjectInto
    <3>4. r.parameters.endpoint = bindings[k].endpoint
      BY <2>2, <3>3, Normalized
    <3>5. r.parameters.endpoint = k
      BY <2>4, <3>2, <3>4 DEF Matching
    <3>6. CASE IsStream(b)
      <4>1. FirstMatch(n, bindings) = {i}
        BY <2>1, <3>6, OwnBinding, UnambiguousIsClear DEF Managed
      <4> QED
        BY <3>1, <3>5, <3>6, <4>1
    <3>7. CASE ~IsStream(b)
      <4>1. RuntimeName(r) = RuntimeName(n)
        BY <2>1, <2>2, InjectionKeeps
      <4>2. k \in DOMAIN bindings
            /\ bindings[k].plan.block_instance_name = RuntimeName(n)
        BY <3>2 DEF Matching
      <4> QED
        BY <3>5, <3>7, <4>1, <4>2
    <3> QED
      BY <3>6, <3>7
  <2> QED
    BY <2>5, <2>6
<1> QED
  BY <1>1, Invariant, PTL

=============================================================================
