------------------------------ MODULE TrainingOrder ------------------------------
(***************************************************************************)
(* The immutable training order: which packed rows a run learns, in which  *)
(* order, and the accounting the run is held to (build_training_order,     *)
(* _load_order_manifest and validate_training_order of pretrain/data.py).  *)
(*                                                                         *)
(* A corpus gives each domain its packed stream.  The random shuffles are  *)
(* arbitrary members of Shuffles; a hash of a file is the file.            *)
(***************************************************************************)
EXTENDS PackedReader, SequencesExt

CONSTANTS Weights,   \* Weights[d]: weight of domain d, d in 0..(number of domains - 1)
          RowSpan,   \* 2 ^ ROW_BITS
          Shuffles,  \* orders the generator may draw, see Shuffled
          Unset

DomainIds == DOMAIN Weights

ASSUME OrderAssumption ==
    /\ DomainIds # {} /\ DomainIds = 0..Cardinality(DomainIds) - 1
    /\ Weights \in [DomainIds -> Nat] /\ \E d \in DomainIds : Weights[d] > 0
    /\ RowSpan \in Nat \ {0}

Total(count) == SumOf(count)
AllWeights == Total(Weights)

Encoded(d, row) == d * RowSpan + row
AllReferences == {Encoded(d, row) : d \in DomainIds, row \in 0..RowSpan - 1}
Decoded(reference) == <<reference \div RowSpan, reference % RowSpan>>

Shuffled(shuffle, s) ==
    CASE shuffle = "kept" -> s
      [] shuffle = "reversed" -> Reverse(s)
      [] shuffle = "riffled" ->
            [k \in 1..Len(s) |-> IF 2 * k <= Len(s) THEN s[2 * k] ELSE
                                 s[2 * (k - Len(s) \div 2) - 1]]

(* One domain after the other.                                             *)
Joined(parts) == FlattenSeq([k \in 1..Cardinality(DomainIds) |-> parts[k - 1]])

-----------------------------------------------------------------------------
(* Largest remainder, ties to the earlier domain.                          *)

Allocation(total) ==
    LET floor == [d \in DomainIds |-> (total * Weights[d]) \div AllWeights]
        rest == [d \in DomainIds |-> (total * Weights[d]) % AllWeights]
        Before(d, e) == rest[d] > rest[e] \/ (rest[d] = rest[e] /\ d < e)
        rank == [d \in DomainIds |-> Cardinality({e \in DomainIds : Before(e, d)})]
    IN  [d \in DomainIds |-> floor[d] + (IF rank[d] < total - Total(floor) THEN 1 ELSE 0)]

RowMixture(count) ==
    \A d \in DomainIds :
        LET gap == count[d] * AllWeights - Total(count) * Weights[d]
        IN  gap \in -AllWeights..AllWeights

(* _count_supervised_tokens_for_references, per domain.                    *)
CountSupervised(packed, references) ==
    [d \in DomainIds |->
        LET m == PackedManifest(packed[d])
        IN  SumOf([e \in {e \in references : Decoded(e)[1] = d} |->
                      Supervised(ReadRow(packed[d], m, Decoded(e)[2]))])]
CountRows(references) ==
    [d \in DomainIds |-> Cardinality({e \in references : Decoded(e)[1] = d})]
Taken(references, a, b) == {references[k] : k \in a..b}
Minus(a, b) == [d \in DomainIds |-> a[d] - b[d]]

(* The smaller side is counted, the other is what remains of the total.    *)
SelectedSupervisedSwapped(packed, available, references, surplus) ==
    IF surplus = {} THEN available
    ELSE IF Cardinality(surplus) > Cardinality(references)
    THEN Minus(available, CountSupervised(packed, surplus))
    ELSE CountSupervised(packed, surplus)
SelectedSupervised(packed, available, references, surplus) ==
    IF surplus = {} THEN available
    ELSE IF Cardinality(surplus) <= Cardinality(references)
    THEN Minus(available, CountSupervised(packed, surplus))
    ELSE CountSupervised(packed, references)

-----------------------------------------------------------------------------
(* build_training_order.  policy: the token target or Unset, the rows of a *)
(* microbatch and the accumulation it freezes or Unset.                    *)

UpdateRows(frozen) == IF frozen = Unset THEN 1 ELSE frozen.rows * frozen.accumulation
SelectedTotal(policy, available) ==
    IF policy.target = Unset THEN Total(available)
    ELSE ((policy.target \div SeqLen) \div UpdateRows(policy.frozen)) * UpdateRows(policy.frozen)

Selection(policy, available) ==
    IF policy.target = Unset THEN available
    ELSE Allocation(SelectedTotal(policy, available))

Sources(packed) == [d \in DomainIds |-> PackedManifest(packed[d])]
Available(sources) == [d \in DomainIds |-> sources[d].rows]

Buildable(packed, policy) ==
    LET available == Available(Sources(packed))
        selected == Selection(policy, available)
    IN  /\ \A d \in DomainIds : ParsedManifest(PackedManifest(packed[d])) /\ available[d] < RowSpan
        /\ SelectedTotal(policy, available) >= 1
        /\ \A d \in DomainIds : selected[d] <= available[d]
        /\ policy.target # Unset => RowMixture(selected)
        /\ policy.frozen # Unset => Total(selected) >= UpdateRows(policy.frozen)

(* training_consumption: complete optimizer updates, the rest is dropped.  *)
Consumption(packed, frozen, references, supervised) ==
    IF frozen = Unset THEN Unset
    ELSE LET updates == Len(references) \div UpdateRows(frozen)
             rows == updates * UpdateRows(frozen)
             dropped == CountSupervised(packed, Taken(references, rows + 1, Len(references)))
         IN  [updates |-> updates, rows |-> rows,
              perDomain |-> CountRows(Taken(references, 1, rows)),
              supervised |-> Minus(supervised, dropped), dropped |-> dropped]

(* The rows a domain gives, in the order they are drawn.                   *)
Drawn(policy, shuffle, d, available) ==
    LET ids == [k \in 1..available |-> Encoded(d, k - 1)]
    IN  IF policy.target = Unset THEN ids ELSE Shuffled(shuffle, ids)

OrderOf(packed, policy, sources, selected, references, surplus) ==
    LET available == Available(sources)
        total == [d \in DomainIds |-> sources[d].supervised]
        supervised == SelectedSupervised(packed, total, Range(references), surplus)
    IN  [payload |-> references,
         manifest |->
            [rows |-> Len(references), selected |-> selected, available |-> available,
             surplus |-> Minus(available, selected), supervised |-> supervised,
             availableSupervised |-> total, surplusSupervised |-> Minus(total, supervised),
             policy |-> policy, sources |-> sources, order |-> references,
             consumption |-> Consumption(packed, policy.frozen, references, supervised)]]

BuiltOrder(packed, policy, shuffle) ==
    LET sources == Sources(packed)
        available == Available(sources)
        selected == Selection(policy, available)
        drawn == [d \in DomainIds |-> Drawn(policy, shuffle, d, available[d])]
    IN  OrderOf(packed, policy, sources, selected,
                Shuffled(shuffle, Joined([d \in DomainIds |-> SubSeq(drawn[d], 1, selected[d])])),
                UNION {Taken(drawn[d], selected[d] + 1, available[d]) : d \in DomainIds})

-----------------------------------------------------------------------------
(* _load_order_manifest, with the payload it finds beside the manifest.    *)

RowsBalance(m) ==
    /\ m.rows >= 1 /\ Total(m.selected) = m.rows
    /\ m.surplus = Minus(m.available, m.selected)
    /\ \A d \in DomainIds : m.surplus[d] >= 0

SupervisedBalance(m) ==
    /\ m.surplusSupervised = Minus(m.availableSupervised, m.supervised)
    /\ \A d \in DomainIds : m.surplusSupervised[d] >= 0

FrozenUse(m, use, update) ==
    /\ use.updates = m.rows \div update /\ use.updates >= 1
    /\ use.rows = use.updates * update /\ Total(use.perDomain) = use.rows
    /\ \A d \in DomainIds : use.perDomain[d] \in 0..m.selected[d]
    /\ m.supervised = [d \in DomainIds |-> use.supervised[d] + use.dropped[d]]

ConsumptionBalance(m) ==
    IF m.policy.frozen = Unset THEN m.consumption = Unset
    ELSE m.consumption # Unset /\ FrozenUse(m, m.consumption, UpdateRows(m.policy.frozen))

Accounted(m) == SeqLen * (IF m.consumption = Unset THEN m.rows ELSE m.consumption.rows)

BudgetKept(m) ==
    IF m.policy.target = Unset THEN Total(m.surplus) = 0
    ELSE /\ m.rows = SelectedTotal(m.policy, m.available)
         /\ m.selected = Allocation(m.rows)
         /\ m.policy.target - Accounted(m) \in 0..UpdateRows(m.policy.frozen) * SeqLen - 1

LoadedOrder(order, verifyChecksum) ==
    LET m == order.manifest
    IN  /\ RowsBalance(m) /\ SupervisedBalance(m) /\ ConsumptionBalance(m) /\ BudgetKept(m)
        /\ Len(order.payload) = m.rows
        /\ verifyChecksum => order.payload = m.order

(* _resolve_order_manifests: the packed manifests it was built from.       *)
ResolvedOrder(order, packed) ==
    order.manifest.sources = Sources(packed)

(* validate_training_order: every selected row once, every count again.    *)

SelectedOnce(m, refs) ==
    LET seen == Range(refs)
    IN  /\ \A e \in seen : /\ Decoded(e)[1] \in DomainIds
                          /\ Decoded(e)[2] < m.available[Decoded(e)[1]]
        /\ Cardinality(seen) = Len(refs) /\ CountRows(seen) = m.selected
        /\ m.consumption # Unset =>
              CountRows(Taken(refs, 1, m.consumption.rows)) = m.consumption.perDomain

SupervisedAgain(m, refs, packed) ==
    LET seen == Range(refs)
        surplus == {e \in AllReferences \ seen : Decoded(e)[2] < m.available[Decoded(e)[1]]}
    IN  /\ m.consumption # Unset =>
              CountSupervised(packed, Taken(refs, m.consumption.rows + 1, m.rows))
                  = m.consumption.dropped
        /\ m.supervised = SelectedSupervised(packed, m.availableSupervised, seen, surplus)

ValidOrder(order, packed) ==
    /\ LoadedOrder(order, TRUE)
    /\ order.manifest.policy.target # Unset => RowMixture(order.manifest.selected)
    /\ SelectedOnce(order.manifest, order.payload)
    /\ ResolvedOrder(order, packed)
    /\ SupervisedAgain(order.manifest, order.payload, packed)

-----------------------------------------------------------------------------
(* The tokens a set of references really teaches.                          *)
Taught(packed, references, d) ==
    SumOf([e \in {e \in references : Decoded(e)[1] = d} |->
              Cardinality(Teaches(packed[d], Decoded(e)[2]))])

\* A published order selects distinct rows of the corpus, as many of each domain
\* as its weights allow to within one row and as many in all as complete updates
\* fit under its token target; what it says it selects, leaves over, consumes and
\* drops is what those rows hold, whichever side of the split was counted, and
\* both the loader and the validator accept it (build_training_order).
OrderExactOf(order, packed) ==
    LET m == order.manifest
        refs == order.payload
        chosen == Range(refs)
        all == {e \in AllReferences : Decoded(e)[2] < RowCount(packed[Decoded(e)[1]])}
        Real(set) == [d \in DomainIds |-> Taught(packed, set, d)]
    IN  /\ chosen \subseteq all /\ Cardinality(chosen) = Len(refs)
        /\ m.policy.target = Unset => chosen = all
        /\ m.policy.target # Unset =>
              /\ Len(refs) * SeqLen <= m.policy.target
              /\ (Len(refs) + UpdateRows(m.policy.frozen)) * SeqLen > m.policy.target
              /\ \A d \in DomainIds :
                    LET count == Cardinality({e \in chosen : Decoded(e)[1] = d})
                        gap == count * AllWeights - Len(refs) * Weights[d]
                    IN  gap < AllWeights /\ -gap < AllWeights
        /\ m.supervised = Real(chosen) /\ m.surplusSupervised = Real(all \ chosen)
        /\ m.policy.frozen # Unset =>
              /\ Len(refs) - m.consumption.rows \in 0..UpdateRows(m.policy.frozen) - 1
              /\ m.consumption.supervised = Real(Taken(refs, 1, m.consumption.rows))
              /\ m.consumption.dropped = Real(chosen \ Taken(refs, 1, m.consumption.rows))
        /\ LoadedOrder(order, TRUE) /\ ValidOrder(order, packed)
=============================================================================
