--------------------------- MODULE Validate_proofs ---------------------------
(***************************************************************************)
(* The types, AcceptedFits, Precedence, BuiltForItsChain, TxSpellsRequest  *)
(* and RefusedForCause of Validate, for every width, every guard and       *)
(* requests however far from a valid one. They are about the order of the  *)
(* rules, and the last two also about what ParseBigInt computes            *)
(* (ParseBigInt_proofs).                                                   *)
(***************************************************************************)
EXTENDS ParseBigInt_proofs

Readable == Number("chainId") \in 1..MaxUint64
OnNetwork == guard \in {Bad, Number("chainId")}

(* The condition each rule leaves behind, by its number.                   *)
Passed(n) == rule > n /\ verdict \in {"none", "valid"}

Control ==
  /\ rule \in 0..10
  /\ verdict \in {"none", "valid", "invalid_input", "chain_id_mismatch", "unsupported_type"}
  /\ verdict = "valid" => rule = 10
  /\ verdict # "none" => rule > 1
  /\ rule = 10 => verdict # "none"

Shape == DOMAIN req = Fields /\ req["data"].digits \in Nat

NetworkRules ==
  /\ Passed(1) => Readable
  /\ Passed(2) => OnNetwork
  /\ Passed(3) => req["type"] # "other"

FieldRules ==
  /\ Passed(4) => \A f \in {"nonce", "gas", "value"} \cup FeeFields(req["type"]) : req[f] # Absent
  /\ Passed(5) => \A f \in OtherFees : req[f] = Absent
  /\ Passed(6) => ~req["accessList"]
  /\ Passed(7) => /\ \A f \in {"nonce", "gas"} : Number(f) \in 0..MaxUint64
                  /\ \A f \in {"value"} \cup FeeFields(req["type"]) : Number(f) \in 0..Max256
  /\ Passed(8) => req["data"].digits <= 2 * MaxDataBytes
  /\ Passed(9) => req["to"] \in {"creation", "account"}

Codes ==
  /\ verdict = "chain_id_mismatch" => Readable /\ ~OnNetwork
  /\ verdict = "unsupported_type" => Readable /\ OnNetwork /\ req["type"] = "other"
  /\ verdict = "invalid_input" => (Readable => OnNetwork /\ req["type"] # "other")

(* A transaction is built of an accepted request.                          *)
TxRule == tx # NoTx => verdict = "valid" /\ tx = Built(Parsed)

IInv == Control /\ Shape /\ NetworkRules /\ FieldRules /\ Codes /\ TxRule

-----------------------------------------------------------------------------

(* A request starts as a valid one, with no rule applied (the entry of     *)
(* validate).                                                              *)
LEMMA InitInv == Init => IInv
<1>1. ASSUME NEW type, req = ValidRequest(type) PROVE Shape
  BY <1>1 DEF Shape, ValidRequest, Fields, NumericFields
<1>2. Init => Shape
  BY <1>1 DEF Init
<1> QED
  BY <1>2 DEF IInv, Init, Control, NetworkRules, FieldRules, Codes, Passed, TxRule

(* Rewriting a field of a request nobody has validated disturbs nothing.   *)
LEMMA ChangeInv == ASSUME IInv, NEW f \in Fields, NEW v \in Values(f), Change(f, v) PROVE IInv'
<1> USE DEF IInv, Change
<1>1. Control'
  BY DEF Control
<1>2. Shape'
  <2>1. CASE f = "data"
    BY <2>1, ValidateAssumption DEF Shape, Values, Datas, NumericFields, Fields, ValidateAssumption
  <2>2. CASE f # "data"
    BY <2>2 DEF Shape, Fields
  <2> QED
    BY <2>1, <2>2
<1>3. verdict = "none"
  BY DEF Control
<1> QED
  BY <1>1, <1>2, <1>3 DEF NetworkRules, FieldRules, Codes, Passed, Control, TxRule

(* The call data of a request that parses is within the limit: parseData   *)
(* counts two digits a byte and refuses odd ones.                          *)
LEMMA ParseDataBound ==
  ASSUME NEW data, data.digits \in Nat, ParseData(data) # Bad
  PROVE  data.digits <= 2 * MaxDataBytes
BY ValidateAssumption DEF ParseData, Bad, ValidateAssumption

(* The rules of validate, applied in order, each leave behind the          *)
(* condition they check.                                                   *)
LEMMA RuleInv ==
  ASSUME IInv,
         \/ ChainId \/ Guard \/ Type
         \/ Required \/ Inappropriate \/ AccessList
         \/ Numeric \/ Data \/ To
  PROVE  IInv'
<1> USE DEF IInv, Apply
<1>0. UNCHANGED <<req, guard>>
  BY DEF ChainId, Guard, Type, Required, Inappropriate, AccessList, Numeric, Data, To
<1>0a. Shape' /\ (Readable' <=> Readable) /\ (OnNetwork' <=> OnNetwork)
  BY <1>0 DEF Shape, Readable, OnNetwork, Number
<1>1. Control'
  BY DEF Control, ChainId, Guard, Type, Required, Inappropriate, AccessList, Numeric, Data, To
<1>2. NetworkRules'
  BY <1>0, <1>0a DEF NetworkRules, Passed, Control, ChainId, Guard, Type, Required, Inappropriate,
     AccessList, Numeric, Data, To, Readable, OnNetwork
<1>3. Codes'
  BY <1>0, <1>0a DEF Codes, NetworkRules, Passed, Control, ChainId, Guard, Type, Required,
     Inappropriate, AccessList, Numeric, Data, To, Readable, OnNetwork
<1>4. FieldRules'
  <2>1. CASE rule \in {1, 2, 3}
    BY <2>1, <1>0 DEF FieldRules, Passed, ChainId, Guard, Type, Required, Inappropriate,
       AccessList, Numeric, Data, To, OtherFees, Number
  <2>2. CASE Required
    BY <2>2, <1>0 DEF FieldRules, Passed, Required
  <2>3. CASE Inappropriate
    BY <2>3, <1>0 DEF FieldRules, Passed, Inappropriate, OtherFees
  <2>4. CASE Numeric
    <3>1. ASSUME NEW f, ParseUint64(req[f]) # Bad PROVE Number(f) \in 0..MaxUint64
      BY <3>1 DEF ParseUint64, Number
    <3> QED
      BY <2>4, <3>1, <1>0 DEF FieldRules, Passed, Numeric, OtherFees, Number
  <2>5. CASE Data
    BY <2>5, <1>0, ParseDataBound DEF FieldRules, Passed, Data, OtherFees, Number, Shape
  <2>6. CASE AccessList
    BY <2>6, <1>0 DEF FieldRules, Passed, AccessList, OtherFees, Number
  <2>7. CASE To
    BY <2>7, <1>0 DEF FieldRules, Passed, To, OtherFees, Number
  <2> QED
    BY <2>1, <2>2, <2>3, <2>4, <2>5, <2>6, <2>7 DEF ChainId, Guard, Type
<1>5. TxRule'
  BY DEF TxRule, ChainId, Guard, Type, Required, Inappropriate, AccessList, Numeric, Data, To
<1> QED
  BY <1>0a, <1>1, <1>2, <1>3, <1>4, <1>5

(* buildTx touches nothing of what validate has settled.                   *)
LEMMA BuildInv == ASSUME IInv, BuildTx PROVE IInv'
<1>1. UNCHANGED <<req, guard, rule, verdict>>
  BY DEF BuildTx
<1>2. Control' /\ Shape'
  BY <1>1 DEF IInv, Control, Shape
<1>3. NetworkRules' /\ FieldRules' /\ Codes'
  BY <1>1 DEF IInv, NetworkRules, FieldRules, Codes, Passed, Readable, OnNetwork, Number, OtherFees
<1>4. Parsed' = Parsed
  BY <1>1 DEF Parsed, Number
<1>5. TxRule'
  BY <1>4 DEF TxRule, BuildTx, Built, LegacyTx, DynamicFeeTx
<1> QED
  BY <1>2, <1>3, <1>5 DEF IInv

(* The conditions of the rules applied so far hold throughout a call of    *)
(* validate.                                                               *)
LEMMA Inductive == Spec => []IInv
<1>1. Init => IInv
  BY InitInv
<1>2. IInv /\ [Next]_vars => IInv'
  <2> SUFFICES ASSUME IInv, [Next]_vars PROVE IInv'
    OBVIOUS
  <2>1. CASE \E f \in Fields : \E v \in Values(f) : Change(f, v)
    BY <2>1, ChangeInv
  <2>2. CASE Submit
    <3>1. verdict = "none" /\ tx = NoTx
      BY <2>2 DEF Submit, IInv, Control, TxRule
    <3> QED
      BY <2>2, <3>1 DEF Submit, IInv, Control, Shape, NetworkRules, FieldRules, Codes, Passed,
         Readable, OnNetwork, Number, OtherFees, TxRule
  <2>3. CASE UNCHANGED vars
    <3>1. Parsed' = Parsed
      BY <2>3 DEF vars, Parsed, Number
    <3>2. TxRule'
      BY <2>3, <3>1 DEF vars, IInv, TxRule, Built, LegacyTx, DynamicFeeTx
    <3> QED
      BY <2>3, <3>2 DEF vars, IInv, Control, Shape, NetworkRules, FieldRules, Codes, Passed,
         Readable, OnNetwork, Number, OtherFees
  <2> QED
    BY <2>1, <2>2, <2>3, RuleInv, BuildInv DEF Next
<1> QED
  BY <1>1, <1>2, PTL DEF Spec

(* The request stays one that the client may have written.                 *)
LEMMA ValidRequestTyped ==
  ASSUME NEW type \in {"legacy", "eip1559"}, NEW f \in Fields
  PROVE  ValidRequest(type)[f] \in Values(f)
<1>1. CASE f \in NumericFields
  <2>1. ValidRequest(type)[f] \in {One, Absent}
    BY <1>1 DEF ValidRequest, NumericFields, FeeFields
  <2>2. One \in Texts /\ Absent \in Texts
    BY Zenon DEF Texts
  <2> QED
    BY <1>1, <2>1, <2>2 DEF Values, NumericFields
<1>2. CASE f = "data"
  <2>1. [prefixed |-> TRUE, hex |-> TRUE, digits |-> 0] \in Datas
    BY DEF Datas
  <2> QED
    BY <1>2, <2>1 DEF ValidRequest, Values, NumericFields, FeeFields
<1>3. CASE f \in {"type", "accessList", "to"}
  BY <1>3 DEF ValidRequest, Values, NumericFields, FeeFields, Types, Tos
<1> QED
  BY <1>1, <1>2, <1>3 DEF Fields

Written ==
  /\ DOMAIN req = Fields
  /\ \A f \in Fields : req[f] \in Values(f)
  /\ guard \in {Bad, 1, MaxUint64}
  /\ changes \in 0..MaxChanges

LEMMA WrittenInv == Spec => []Written
<1>1. Init => Written
  <2> SUFFICES ASSUME Init PROVE Written
    OBVIOUS
  <2>1. PICK type \in {"legacy", "eip1559"} : req = ValidRequest(type)
    BY DEF Init
  <2>2. DOMAIN req = Fields
    BY <2>1 DEF ValidRequest
  <2> QED
    BY <2>1, <2>2, ValidRequestTyped, ValidateAssumption DEF Init, Written, ValidateAssumption
<1>2. Written /\ [Next]_vars => Written'
  <2> SUFFICES ASSUME Written, [Next]_vars PROVE Written'
    OBVIOUS
  <2>1. ASSUME NEW f \in Fields, NEW v \in Values(f), Change(f, v) PROVE Written'
    <3>1. changes' \in 0..MaxChanges
      BY <2>1, ValidateAssumption DEF Change, Written, ValidateAssumption
    <3>2. DOMAIN req' = Fields /\ \A g \in Fields : req'[g] \in Values(g)
      BY <2>1 DEF Change, Written
    <3> QED
      BY <2>1, <3>1, <3>2 DEF Change, Written
  <2>2. CASE UNCHANGED <<req, guard, changes>>
    BY <2>2 DEF Written
  <2> QED
    BY <2>1, <2>2 DEF Next, vars, Submit, ChainId, Guard, Type, Required, Inappropriate,
       AccessList, Numeric, Data, To, Apply, BuildTx
<1> QED
  BY <1>1, <1>2, PTL DEF Spec

(* Every variable keeps its type, and validate has answered after its last *)
(* rule.                                                                   *)
THEOREM TypeCorrect == Spec => []TypeOK
<1>1. IInv /\ Written => TypeOK
  <2> SUFFICES ASSUME IInv, Written PROVE TypeOK
    OBVIOUS
  <2>1. tx = NoTx \/ tx = LegacyTx(Parsed) \/ tx = DynamicFeeTx(Parsed)
    BY DEF IInv, TxRule, Built
  <2>2. tx.txType \in {"none", "legacy", "eip1559"}
    BY <2>1 DEF NoTx, LegacyTx, DynamicFeeTx
  <2> QED
    BY <2>2 DEF IInv, Control, Written, TypeOK
<1> QED
  BY <1>1, Inductive, WrittenInv, PTL

(* What buildTx is handed has passed every rule and can be encoded, for    *)
(* every width: a failed rule of validate is never overruled by a later    *)
(* one.                                                                    *)
THEOREM AcceptedIsEncodable == Spec => []AcceptedFits
<1>1. IInv => AcceptedFits
  <2> SUFFICES ASSUME IInv, verdict = "valid" PROVE AcceptedFits
    BY DEF AcceptedFits
  <2>1. rule = 10
    BY DEF IInv, Control
  <2>2. Readable /\ FieldRules
    BY <2>1 DEF IInv, NetworkRules, Passed
  <2>3. req["type"] = "legacy" <=> req["gasPrice"] # Absent
    BY <2>1, <2>2 DEF FieldRules, Passed, FeeFields, OtherFees
  <2>4. req["type"] = "eip1559" <=> Absent \notin {req["maxFeePerGas"], req["maxPriorityFeePerGas"]}
    BY <2>1, <2>2 DEF FieldRules, Passed, FeeFields, OtherFees
  <2>5. /\ \A f \in {"nonce", "gas"} : Number(f) \in 0..MaxUint64
        /\ \A f \in {"value"} \cup FeeFields(req["type"]) : Number(f) \in 0..Max256
        /\ ~req["accessList"]
        /\ req["data"].digits <= 2 * MaxDataBytes
        /\ req["to"] \in {"creation", "account"}
    BY <2>1, <2>2 DEF FieldRules, Passed
  <2>6. Number("chainId") \in 1..MaxUint64
    BY <2>2 DEF Readable
  <2> QED
    BY <2>3, <2>4, <2>5, <2>6, Zenon DEF AcceptedFits
<1> QED
  BY <1>1, Inductive, PTL

(* A readable chain id other than the guard is answered chain_id_mismatch  *)
(* and an unknown type on the right network unsupported_type, whatever     *)
(* else the request gets wrong (the locked order of validate).             *)
THEOREM OrderIsLocked == Spec => []Precedence
<1>1. IInv => Precedence
  BY DEF IInv, Precedence, Control, NetworkRules, Codes, Passed, Readable, OnNetwork
<1> QED
  BY <1>1, Inductive, PTL

(* No transaction is built for a chain the guard excludes or for chain     *)
(* zero, and its own chain id is its signer's (validate before buildTx in  *)
(* SignTransaction).                                                       *)
THEOREM NoReplay == Spec => []BuiltForItsChain
<1>1. IInv => BuiltForItsChain
  <2> SUFFICES ASSUME IInv, tx # NoTx PROVE BuiltForItsChain
    BY DEF BuiltForItsChain
  <2>1. tx = Built(Parsed) /\ Readable /\ OnNetwork
    BY DEF IInv, TxRule, Control, NetworkRules, Passed
  <2>2. tx.signer = Number("chainId")
    BY <2>1 DEF Built, LegacyTx, DynamicFeeTx, Parsed
  <2>3. tx.txType = "eip1559" => tx.chainID = tx.signer
    BY <2>1 DEF Built, LegacyTx, DynamicFeeTx, Parsed
  <2>4. tx.signer > 0
    BY <2>1, <2>2, ValidateAssumption DEF Readable, ValidateAssumption
  <2>5. guard \in {Bad, tx.signer}
    BY <2>1, <2>2 DEF OnNetwork
  <2> QED
    BY <2>3, <2>4, <2>5 DEF BuiltForItsChain
<1> QED
  BY <1>1, Inductive, PTL

-----------------------------------------------------------------------------

(* Whatever a client may write is digits, of some prefix.                  *)
LEMMA TextTyped ==
  ASSUME NEW t \in Texts
  PROVE  t.digits \in Seq(Nat) /\ t.prefix \in {"none", "0x"}
<1>1. Numbers \subseteq Nat
  BY ValidateAssumption DEF Numbers, ValidateAssumption
<1>2. CASE \E n \in Numbers : t = Text("none", Decimal[n])
  <2>1. PICK n \in Numbers : t = Text("none", Decimal[n])
    BY <1>2
  <2>2. Decimal[n] \in Seq(0..9)
    BY <1>1, DecimalType
  <2>3. Decimal[n] \in Seq(Nat)
    BY <2>2
  <2> QED
    BY <2>1, <2>3 DEF Text
<1>3. CASE \E n \in Numbers : t = Text("0x", Hex[n])
  <2>1. PICK n \in Numbers : t = Text("0x", Hex[n])
    BY <1>3
  <2>2. Hex[n] \in Seq(0..15)
    BY <1>1, HexType
  <2>3. Hex[n] \in Seq(Nat)
    BY <2>2
  <2> QED
    BY <2>1, <2>3 DEF Text
<1>4. CASE t \in {Absent, One, Text("0x", << >>), Text("none", <<0, 1>>),
                  Text("none", <<OtherChar>>), Text("none", <<15>>), [One EXCEPT !.signed = TRUE],
                  [Text("0x", <<0, 1>>) EXCEPT !.signed = TRUE]}
  <2>1. t.prefix \in {"none", "0x"}
    BY <1>4 DEF Absent, One, Text
  <2>2. t.digits \in {<< >>, <<1>>, <<0, 1>>, <<16>>, <<15>>}
    BY <1>4 DEF Absent, One, Text, OtherChar
  <2>3. << >> \in Seq(Nat) /\ <<1>> \in Seq(Nat) /\ <<0, 1>> \in Seq(Nat)
    OBVIOUS
  <2>4. <<16>> \in Seq(Nat) /\ <<15>> \in Seq(Nat)
    OBVIOUS
  <2>5. t.digits \in Seq(Nat)
    BY <2>2, <2>3, <2>4, Zenon
  <2> QED
    BY <2>1, <2>5
<1> QED
  BY <1>2, <1>3, <1>4, Zenon DEF Texts

(* Every number that the request spells and buildTx gets is in the slot of *)
(* its field.                                                              *)
LEMMA InItsSlot ==
  ASSUME IInv, Written, tx # NoTx, NEW f \in NumericFields, req[f] # Absent
  PROVE  /\ Number(f) # Bad
         /\ Slot(f) \in DOMAIN tx
         /\ tx[Slot(f)] = Number(f)
<1>1. tx = Built(Parsed) /\ rule = 10 /\ verdict = "valid"
  BY DEF IInv, TxRule, Control
<1>2. /\ Readable
      /\ req["type"] # "other"
      /\ f \notin OtherFees
      /\ \A g \in {"nonce", "gas"} : Number(g) \in 0..MaxUint64
      /\ \A g \in {"value"} \cup FeeFields(req["type"]) : Number(g) \in 0..Max256
  BY <1>1 DEF IInv, NetworkRules, FieldRules, Passed
<1>3. f \in {"chainId", "nonce", "gas", "value"} \cup FeeFields(req["type"])
  BY <1>2 DEF OtherFees, NumericFields
<1>4. Number(f) # Bad
  BY <1>2, <1>3, ValidateAssumption DEF Readable, Bad, ValidateAssumption
<1>5. CASE req["type"] = "legacy"
  <2>1. f \in {"chainId", "nonce", "gas", "value", "gasPrice"}
    BY <1>3, <1>5 DEF FeeFields
  <2>2. tx = LegacyTx(Parsed)
    BY <1>1, <1>5 DEF Built, Parsed
  <2>3. Slot(f) \in DOMAIN tx /\ tx[Slot(f)] = Number(f)
    BY <1>5, <2>1, <2>2 DEF LegacyTx, Parsed, Slot, FeeFields
  <2> QED
    BY <1>4, <2>3
<1>6. CASE req["type"] # "legacy"
  <2>0. req["type"] = "eip1559"
    <3>1. req["type"] \in Types
      BY Zenon DEF Written, Values, Fields, NumericFields
    <3> QED
      BY <1>2, <1>6, <3>1 DEF Types
  <2>1. f \in {"chainId", "nonce", "gas", "value", "maxFeePerGas", "maxPriorityFeePerGas"}
    BY <1>3, <1>6 DEF FeeFields
  <2>2. tx = DynamicFeeTx(Parsed)
    BY <1>1, <1>6 DEF Built, Parsed
  <2>3. Slot(f) \in DOMAIN tx /\ tx[Slot(f)] = Number(f)
    BY <2>0, <2>1, <2>2 DEF DynamicFeeTx, Parsed, Slot, FeeFields
  <2> QED
    BY <1>4, <2>3
<1> QED
  BY <1>5, <1>6

(* The numbers in the transaction that is signed are those that the        *)
(* client's unsigned text spells, each in its own slot and none left out,  *)
(* for every width (parseBigInt and buildTx).                              *)
THEOREM TxIsTheRequest == Spec => []TxSpellsRequest
<1>1. IInv /\ Written => TxSpellsRequest
  <2> SUFFICES ASSUME IInv, Written, tx # NoTx, NEW f \in NumericFields, req[f] # Absent
               PROVE  Slot(f) \in DOMAIN tx /\ ~req[f].signed /\ Spells(req[f], tx[Slot(f)])
    BY Zenon DEF TxSpellsRequest
  <2>1. Number(f) # Bad /\ Slot(f) \in DOMAIN tx /\ tx[Slot(f)] = Number(f)
    BY InItsSlot
  <2>2. req[f] \in Texts
    <3>1. f \in Fields
      BY DEF Fields
    <3>2. req[f] \in Values(f)
      BY <3>1, Zenon DEF Written
    <3> QED
      BY <3>2 DEF Values, NumericFields
  <2>3. Spells(req[f], Number(f))
    BY <2>1, <2>2, TextTyped, SpellsWhatItParses, Zenon DEF Number
  <2>4. ~req[f].signed
    BY <2>1, Zenon DEF Number, ParseBigInt
  <2> QED
    BY <2>1, <2>3, <2>4
<1> QED
  BY <1>1, Inductive, WrittenInv, PTL

-----------------------------------------------------------------------------

(* A number that the request spells is the one parsed from it, and its     *)
(* field is there.                                                         *)
LEMMA LegibleParses ==
  ASSUME Written, NEW f \in NumericFields, NEW range \in SUBSET Nat, Legible(f, range)
  PROVE  Number(f) \in range /\ req[f] # Absent
<1>1. req[f] \in Texts
  <2>1. f \in Fields
    BY DEF Fields
  <2>2. req[f] \in Values(f)
    BY <2>1, Zenon DEF Written
  <2> QED
    BY <2>2 DEF Values, NumericFields
<1>2. PICK n \in range : Spells(req[f], n)
  BY Zenon DEF Legible
<1>3. ~req[f].signed /\ n \in Nat
  BY Zenon DEF Legible
<1>4. Number(f) = n
  BY <1>1, <1>2, <1>3, TextTyped, ParsesWhatSpells, Zenon DEF Number
<1>5. ParseBigInt(Absent) = Bad
  BY Zenon DEF ParseBigInt, Absent, Text
<1>6. Number(f) # Bad
  BY <1>3, <1>4 DEF Bad
<1> QED
  BY <1>2, <1>4, <1>5, <1>6, Zenon DEF Number

(* An encodable request fails no rule but those of the network and of the  *)
(* type: validate turns no such request away as invalid input.             *)
LEMMA EncodablePasses ==
  ASSUME Written, Encodable,
         \/ ChainId \/ Guard \/ Type
         \/ Required \/ Inappropriate \/ AccessList
         \/ Numeric \/ Data \/ To
  PROVE  verdict' # "invalid_input"
<1> USE DEF Apply
<1>1. /\ 1..MaxUint64 \in SUBSET Nat /\ 0..MaxUint64 \in SUBSET Nat /\ 0..Max256 \in SUBSET Nat
  BY ValidateAssumption DEF ValidateAssumption
<1>2. FeeFields(req["type"]) \subseteq NumericFields
  BY DEF FeeFields, NumericFields
<1>3. CASE ChainId
  <2>1. Number("chainId") \in 1..MaxUint64
    BY <1>1, LegibleParses DEF Encodable, NumericFields
  <2> QED
    BY <1>3, <2>1 DEF ChainId
<1>4. CASE Guard \/ Type
  BY <1>4 DEF Guard, Type
<1>5. ASSUME NEW f \in {"nonce", "gas"} PROVE req[f] # Absent /\ Number(f) \in 0..MaxUint64
  <2>1. f \in NumericFields /\ Legible(f, 0..MaxUint64)
    BY Zenon DEF Encodable, NumericFields
  <2> QED
    BY <1>1, <2>1, LegibleParses
<1>6. ASSUME NEW f \in {"value"} \cup FeeFields(req["type"])
      PROVE  req[f] # Absent /\ Number(f) \in 0..Max256
  <2>1. f \in NumericFields /\ Legible(f, 0..Max256)
    BY <1>2, Zenon DEF Encodable, NumericFields
  <2> QED
    BY <1>1, <2>1, LegibleParses
<1>7. CASE Required
  BY <1>5, <1>6, <1>7 DEF Required
<1>8. CASE Inappropriate \/ AccessList \/ To
  BY <1>8 DEF Inappropriate, AccessList, To, Encodable
<1>9. CASE Numeric
  <2>1. \A f \in {"nonce", "gas"} : ParseUint64(req[f]) # Bad
    BY <1>5, ValidateAssumption DEF ParseUint64, Number, Bad, ValidateAssumption
  <2> QED
    BY <1>6, <1>9, <2>1 DEF Numeric
<1>10. CASE Data
  <2>1. PICK bytes \in 0..MaxDataBytes : req["data"].digits = 2 * bytes
    BY Zenon DEF Encodable
  <2>2. bytes \in Nat /\ bytes <= MaxDataBytes
    BY <2>1, ValidateAssumption DEF ValidateAssumption
  <2>3. (2 * bytes) % 2 = 0 /\ (2 * bytes) \div 2 = bytes
    BY <2>2
  <2>4. ParseData(req["data"]) = bytes
    BY <2>1, <2>2, <2>3, ValidateAssumption DEF ParseData, Encodable, ValidateAssumption
  <2> QED
    BY <1>10, <2>2, <2>4 DEF Data, Bad
<1> QED
  BY <1>3, <1>4, <1>7, <1>8, <1>9, <1>10

(* What can be encoded is never refused as invalid input, for every width  *)
(* and limit and for texts of any length (validate and its parsers).       *)
THEOREM RefusalHasCause == Spec => []RefusedForCause
<1>1. Init => RefusedForCause
  BY DEF Init, RefusedForCause
<1>2. RefusedForCause /\ IInv /\ Written /\ [Next]_vars => RefusedForCause'
  <2> SUFFICES ASSUME RefusedForCause, IInv, Written, [Next]_vars, verdict' = "invalid_input"
               PROVE  ~Encodable'
    BY DEF RefusedForCause
  <2>1. ~(\E f \in Fields : \E v \in Values(f) : Change(f, v))
    BY DEF Change, IInv, Control
  <2>2. req' = req
    BY <2>1 DEF Next, vars, Submit, ChainId, Guard, Type, Required, Inappropriate, AccessList,
       Numeric, Data, To, Apply, BuildTx
  <2>3. Encodable' <=> Encodable
    BY <2>2 DEF Encodable, Legible, OtherFees
  <2>4. CASE verdict' = verdict
    BY <2>3, <2>4 DEF RefusedForCause
  <2>5. CASE verdict' # verdict
    <3>1. \/ ChainId \/ Guard \/ Type
          \/ Required \/ Inappropriate \/ AccessList
          \/ Numeric \/ Data \/ To
      BY <2>1, <2>5 DEF Next, vars, Submit, BuildTx
    <3> QED
      BY <2>3, <3>1, EncodablePasses
  <2> QED
    BY <2>4, <2>5
<1> QED
  BY <1>1, <1>2, Inductive, WrittenInv, PTL DEF Spec
=============================================================================
