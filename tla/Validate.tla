------------------------------ MODULE Validate ------------------------------
(***************************************************************************)
(* validate() and its parsers (internal/signing/validate.go): nine rules   *)
(* in a fixed order, the first that fails deciding the error code, and     *)
(* buildTx (build.go), which makes a transaction of what they accept. One  *)
(* action is one rule. Requests are two valid ones, a legacy and an        *)
(* EIP-1559 one, with at most MaxChanges fields changed: two suffice to    *)
(* set any rule against any other.                                         *)
(***************************************************************************)
EXTENDS Integers, Sequences, SequencesExt, FiniteSets

CONSTANTS
  MaxUint64,    \* the largest uint64, scaled down
  Max256,       \* the largest 256-bit number, scaled down
  MaxDataBytes, \* maxDataBytes, scaled down
  MaxChanges    \* fields in which a request differs from a valid one

ASSUME ValidateAssumption ==
  /\ MaxUint64 \in Nat \ {0}
  /\ Max256 \in Nat
  /\ MaxUint64 < Max256
  /\ MaxDataBytes \in Nat
  /\ MaxChanges \in Nat

-----------------------------------------------------------------------------
(* Numerals. A text is a sign or none, a 0x prefix or none, and digits; a  *)
(* digit no base has stands for any other character.                       *)

OtherChar == 16
Text(prefix, digits) == [signed |-> FALSE, prefix |-> prefix, digits |-> digits]

Absent == Text("none", << >>)
One == Text("none", <<1>>)
Bad == -1      \* parseBigInt returned an error

Base(t) == IF t.prefix = "0x" THEN 16 ELSE 10

(* Fault: decimal leading zeros are let through.                           *)
ParseBigInt_leadingZeros(t) ==
  IF \/ t.signed
     \/ t.digits = << >>
     \/ \E i \in DOMAIN t.digits : t.digits[i] >= Base(t)
  THEN Bad
  ELSE FoldLeft(LAMBDA n, d : n * Base(t) + d, 0, t.digits)

(* Fault: leading zeros are refused in hexadecimal too.                    *)
ParseBigInt_noHexZeros(t) ==
  IF \/ t.signed
     \/ t.digits = << >>
     \/ Len(t.digits) > 1 /\ t.digits[1] = 0
     \/ \E i \in DOMAIN t.digits : t.digits[i] >= Base(t)
  THEN Bad
  ELSE FoldLeft(LAMBDA n, d : n * Base(t) + d, 0, t.digits)

(* Fault: a sign is read over.                                             *)
ParseBigInt_signed(t) ==
  IF \/ t.digits = << >>
     \/ t.prefix = "none" /\ Len(t.digits) > 1 /\ t.digits[1] = 0
     \/ \E i \in DOMAIN t.digits : t.digits[i] >= Base(t)
  THEN Bad
  ELSE FoldLeft(LAMBDA n, d : n * Base(t) + d, 0, t.digits)

ParseBigInt(t) ==
  IF \/ t.signed
     \/ t.digits = << >>
     \/ t.prefix = "none" /\ Len(t.digits) > 1 /\ t.digits[1] = 0
     \/ \E i \in DOMAIN t.digits : t.digits[i] >= Base(t)
  THEN Bad
  ELSE FoldLeft(LAMBDA n, d : n * Base(t) + d, 0, t.digits)

ParseUint64(t) == IF ParseBigInt(t) \in 0..MaxUint64 THEN ParseBigInt(t) ELSE Bad

(* parseData: two digits are a byte, and the limit counts bytes.           *)
ParseData(data) ==
  IF ~data.prefixed \/ data.digits % 2 # 0 \/ ~data.hex \/ data.digits \div 2 > MaxDataBytes
  THEN Bad ELSE data.digits \div 2

-----------------------------------------------------------------------------
(* Requests.                                                               *)

(* Decimal and hexadecimal spellings of a number, the latter with a zero.  *)
Decimal[n \in Nat] == IF n < 10 THEN <<n>> ELSE Append(Decimal[n \div 10], n % 10)
Hex[n \in Nat] == IF n < 16 THEN <<0, n>> ELSE Append(Hex[n \div 16], n % 16)

Numbers == {0, 1, MaxUint64, MaxUint64 + 1, Max256, Max256 + 1}
Texts ==
  {Text("none", Decimal[n]) : n \in Numbers} \cup {Text("0x", Hex[n]) : n \in Numbers}
  \cup {Absent, One, Text("0x", << >>), Text("none", <<0, 1>>), Text("none", <<OtherChar>>),
        Text("none", <<15>>), [One EXCEPT !.signed = TRUE],
        [Text("0x", <<0, 1>>) EXCEPT !.signed = TRUE]}

Datas == {d \in [prefixed : BOOLEAN, hex : BOOLEAN,
                 digits : {0, 1, 2 * MaxDataBytes, 2 * MaxDataBytes + 2}] : d.hex \/ d.digits > 0}
Tos == {"creation", "account", "malformed", "badChecksum"}
Types == {"legacy", "eip1559", "other"}

NumericFields == {"chainId", "nonce", "gas", "value", "gasPrice", "maxFeePerGas",
                  "maxPriorityFeePerGas"}
Values(f) ==
  CASE f \in NumericFields -> Texts
    [] f = "type" -> Types
    [] f = "accessList" -> BOOLEAN      \* non-empty
    [] f = "data" -> Datas
    [] f = "to" -> Tos

Fields == NumericFields \cup {"type", "accessList", "data", "to"}

FeeFields(type) ==
  CASE type = "legacy" -> {"gasPrice"}
    [] type = "eip1559" -> {"maxFeePerGas", "maxPriorityFeePerGas"}
    [] OTHER -> {}

ValidRequest(type) ==
  [f \in Fields |->
     CASE f \in {"chainId", "nonce", "gas", "value"} \cup FeeFields(type) -> One
       [] f \in NumericFields \ ({"chainId", "nonce", "gas", "value"} \cup FeeFields(type)) -> Absent
       [] f = "type" -> type
       [] f = "accessList" -> FALSE
       [] f = "data" -> [prefixed |-> TRUE, hex |-> TRUE, digits |-> 0]
       [] f = "to" -> "account"]

VARIABLES
  req,      \* the request
  guard,    \* the chain-id guard, or Bad for none
  changes,  \* how many fields of it the client has changed
  rule,     \* the next rule, 0 while the client writes the request
  verdict,  \* "none" while validate runs
  tx        \* the unsigned transaction, with the chain id of its signer

vars == <<req, guard, changes, rule, verdict, tx>>

NoTx == [txType |-> "none"]

Init ==
  /\ req \in {ValidRequest("legacy"), ValidRequest("eip1559")}
  /\ guard \in {Bad, 1, MaxUint64}
  /\ changes = 0
  /\ rule = 0
  /\ verdict = "none"
  /\ tx = NoTx

Change(f, v) ==
  /\ rule = 0
  /\ changes < MaxChanges
  /\ req[f] # v
  /\ req' = [req EXCEPT ![f] = v]
  /\ changes' = changes + 1
  /\ UNCHANGED <<guard, rule, verdict, tx>>

Submit == rule = 0 /\ rule' = 1 /\ UNCHANGED <<req, guard, changes, verdict, tx>>

-----------------------------------------------------------------------------
(* The rules.                                                              *)

(* Fault: the return is missing after a rule has failed.                   *)
Apply_noReturn(n, ok, code) ==
  /\ rule = n
  /\ rule' = n + 1
  /\ verdict' = IF ~ok THEN code ELSE IF n = 9 THEN "valid" ELSE "none"
  /\ UNCHANGED <<req, guard, changes, tx>>

Apply(n, ok, code) ==
  /\ rule = n
  /\ verdict = "none"
  /\ rule' = n + 1
  /\ verdict' = IF ~ok THEN code ELSE IF n = 9 THEN "valid" ELSE "none"
  /\ UNCHANGED <<req, guard, changes, tx>>

Number(f) == ParseBigInt(req[f])

(* Fault: only a chain id that does not parse is refused.                  *)
ChainId_zero == Apply(1, Number("chainId") \in 0..MaxUint64, "invalid_input")

(* Fault: a chain id beyond uint64 is let through.                         *)
ChainId_wide == Apply(1, Number("chainId") > 0, "invalid_input")

ChainId == Apply(1, Number("chainId") \in 1..MaxUint64, "invalid_input")

(* Fault: the type is looked at before the guard.                          *)
Guard_afterType ==
  Apply(2, guard = Bad \/ Number("chainId") = guard \/ req["type"] = "other", "chain_id_mismatch")

Guard == Apply(2, guard = Bad \/ Number("chainId") = guard, "chain_id_mismatch")

(* Fault: the error for an unknown type is built without its code.         *)
Type_noCode == Apply(3, req["type"] # "other", "")

Type == Apply(3, req["type"] # "other", "unsupported_type")

Required ==
  Apply(4, \A f \in {"nonce", "gas", "value"} \cup FeeFields(req["type"]) : req[f] # Absent,
        "invalid_input")

OtherFees == {"gasPrice", "maxFeePerGas", "maxPriorityFeePerGas"} \ FeeFields(req["type"])

Inappropriate == Apply(5, \A f \in OtherFees : req[f] = Absent, "invalid_input")

AccessList == Apply(6, ~req["accessList"], "invalid_input")

Numeric ==
  Apply(7,
        /\ \A f \in {"nonce", "gas"} : ParseUint64(req[f]) # Bad
        /\ \A f \in {"value"} \cup FeeFields(req["type"]) : Number(f) \in 0..Max256,
        "invalid_input")

Data == Apply(8, ParseData(req["data"]) # Bad, "invalid_input")

To == Apply(9, req["to"] \in {"creation", "account"}, "invalid_input")

-----------------------------------------------------------------------------
(* buildTx. Its defaults for a nil value and nil data, and its panic on    *)
(* another type, are not reached from what validate returns.               *)

(* The parsedTx that validate returns, and its sender's chain.             *)
Parsed ==
  LET fee(f) == IF f \in FeeFields(req["type"]) THEN Number(f) ELSE Bad
  IN  [txType |-> req["type"], chainID |-> Number("chainId"), nonce |-> Number("nonce"),
       gas |-> Number("gas"), value |-> Number("value"), gasPrice |-> fee("gasPrice"),
       gasTipCap |-> fee("maxPriorityFeePerGas"), gasFeeCap |-> fee("maxFeePerGas"),
       data |-> ParseData(req["data"]), to |-> req["to"]]

LegacyTx(p) ==
  [txType |-> "legacy", signer |-> p.chainID, nonce |-> p.nonce, gasPrice |-> p.gasPrice,
   gas |-> p.gas, to |-> p.to, value |-> p.value, data |-> p.data]

(* Fault: the two caps are taken for each other.                           *)
DynamicFeeTx_swapped(p) ==
  [txType |-> "eip1559", signer |-> p.chainID, chainID |-> p.chainID, nonce |-> p.nonce,
   gasTipCap |-> p.gasFeeCap, gasFeeCap |-> p.gasTipCap,
   gas |-> p.gas, to |-> p.to, value |-> p.value, data |-> p.data]

DynamicFeeTx(p) ==
  [txType |-> "eip1559", signer |-> p.chainID, chainID |-> p.chainID, nonce |-> p.nonce,
   gasTipCap |-> p.gasTipCap, gasFeeCap |-> p.gasFeeCap,
   gas |-> p.gas, to |-> p.to, value |-> p.value, data |-> p.data]

Built(p) == IF p.txType = "legacy" THEN LegacyTx(p) ELSE DynamicFeeTx(p)

BuildTx ==
  /\ verdict = "valid"
  /\ tx = NoTx
  /\ tx' = Built(Parsed)
  /\ UNCHANGED <<req, guard, changes, rule, verdict>>

Next ==
  \/ \E f \in Fields : \E v \in Values(f) : Change(f, v)
  \/ Submit
  \/ ChainId \/ Guard \/ Type
  \/ Required \/ Inappropriate \/ AccessList
  \/ Numeric \/ Data \/ To
  \/ BuildTx

Spec == Init /\ [][Next]_vars

-----------------------------------------------------------------------------
(* Properties.                                                             *)

(* validate answers with a transaction or with one of its three codes, and *)
(* has answered after the last rule.                                       *)
TypeOK ==
  /\ \A f \in Fields : req[f] \in Values(f)
  /\ guard \in {Bad, 1, MaxUint64}
  /\ changes \in 0..MaxChanges
  /\ rule \in 0..10
  /\ verdict \in {"none", "valid", "invalid_input", "chain_id_mismatch", "unsupported_type"}
  /\ rule = 10 => verdict # "none"
  /\ tx.txType \in {"none", "legacy", "eip1559"}

(* What buildTx is handed has passed every rule, the earlier ones as well  *)
(* as the last, and can be encoded: a chain id no signer treats as         *)
(* unprotected and every number within the width of the transaction field  *)
(* it fills, the fees of one type only, no access list, which a            *)
(* transaction built here would silently lose, call data within the limit, *)
(* and a recipient that is an address or left out.                         *)
AcceptedFits ==
  verdict = "valid" =>
    /\ Number("chainId") \in 1..MaxUint64
    /\ \A f \in {"nonce", "gas"} : Number(f) \in 0..MaxUint64
    /\ \A f \in {"value"} \cup FeeFields(req["type"]) : Number(f) \in 0..Max256
    /\ ~req["accessList"]
    /\ req["data"].digits <= 2 * MaxDataBytes
    /\ req["to"] \in {"creation", "account"}
    /\ req["type"] = "legacy" <=> req["gasPrice"] # Absent
    /\ req["type"] = "eip1559" <=> Absent \notin {req["maxFeePerGas"], req["maxPriorityFeePerGas"]}

(* A client on the wrong network is told so whatever else is wrong with    *)
(* its request, and only if its chain id could be read; an unknown type is *)
(* reported before anything the fields of that type could get wrong (the   *)
(* order the comment on validate calls locked).                            *)
Precedence ==
  LET readable == Number("chainId") \in 1..MaxUint64
      onNetwork == guard \in {Bad, Number("chainId")}
  IN  verdict # "none" =>
        /\ verdict = "chain_id_mismatch" <=> readable /\ ~onNetwork
        /\ verdict = "unsupported_type" <=> readable /\ onNetwork /\ req["type"] = "other"

(* Nothing is built for a chain other than the guard's, or for none, which *)
(* would leave the signature open to replay; and a typed transaction names *)
(* the chain of its signer, without which SignTx refuses it in the vault,  *)
(* after the key has been decrypted for it.                                *)
BuiltForItsChain ==
  tx # NoTx =>
    /\ tx.signer > 0
    /\ guard \in {Bad, tx.signer}
    /\ tx.txType = "eip1559" => tx.chainID = tx.signer

Slot(f) ==
  CASE f = "chainId" -> "signer"
    [] f = "maxPriorityFeePerGas" -> "gasTipCap"
    [] f = "maxFeePerGas" -> "gasFeeCap"
    [] OTHER -> f

(* A decimal text is the one canonical spelling of the number; a           *)
(* hexadecimal one may have leading zeros.                                 *)
Spells(text, n) ==
  IF text.prefix = "none"
  THEN text.digits = Decimal[n]
  ELSE \E k \in 0..Len(text.digits) : text.digits = [i \in 1..k |-> 0] \o Tail(Hex[n])

(* From the client's text to the transaction that is signed: each number   *)
(* that the request spells stands in the slot of its own field, and none   *)
(* that it spells is left out; no text with a sign spells any.             *)
TxSpellsRequest ==
  tx # NoTx =>
    \A f \in NumericFields : req[f] # Absent =>
      Slot(f) \in DOMAIN tx /\ ~req[f].signed /\ Spells(req[f], tx[Slot(f)])

(* The text of a field is an unsigned spelling of a number of the range.   *)
Legible(f, range) == ~req[f].signed /\ \E n \in range : Spells(req[f], n)

(* The request can be encoded, and says so in a documented spelling.       *)
Encodable ==
  /\ Legible("chainId", 1..MaxUint64)
  /\ \A f \in {"nonce", "gas"} : Legible(f, 0..MaxUint64)
  /\ \A f \in {"value"} \cup FeeFields(req["type"]) : Legible(f, 0..Max256)
  /\ \A f \in OtherFees : req[f] = Absent
  /\ ~req["accessList"]
  /\ req["data"].prefixed /\ req["data"].hex
  /\ \E bytes \in 0..MaxDataBytes : req["data"].digits = 2 * bytes
  /\ req["to"] \in {"creation", "account"}

(* No encodable request is turned away as invalid input: no limit is one   *)
(* too tight, no rule asks for a field of the other type, and hexadecimal  *)
(* may be padded with zeros (the comment on parseBigInt).                  *)
RefusedForCause == verdict = "invalid_input" => ~Encodable
=============================================================================
