------------------------------ MODULE ReceiptCheck ------------------------------
(***************************************************************************)
(* Checking a receipt file: `vitna verify` (apps/vitna-cli/src/main.rs,         *)
(* run_verify) and vitna-receipt-verify, over crates/vitna-receipt-verify and   *)
(* crates/receipts.  Receipts are signed on two devices and passed around as     *)
(* files that anyone may change, while they are checked too.                   *)
(***************************************************************************)
EXTENDS Naturals

CONSTANTS
  Devices,
  Here,      \* the device the check runs on
  Bodies,    \* what a receipt says, but for the field that is checked for its form
  MaxHands   \* bound: times the file is signed, changed or removed

ASSUME CheckAssumption == Here \in Devices /\ MaxHands \in Nat /\ "none" \notin Devices

VARIABLES
  receiptFile, \* the file: "absent", "torn", or a receipt
  keyed,       \* the devices that have made their key
  check,       \* the check
  signed,      \* auxiliary: what was signed, with which device's key
  hands

checkVars == <<receiptFile, keyed, check, signed, hands>>

\* The form: schema, isolation label, completion state and file hashes as a signer leaves
\* them, or one of them wrong.
Payload == [body : Bodies, form : {"sound", "wrong"}]
Unsigned == [by |-> "none", over |-> [body |-> "none", form |-> "none"]]
Receipt(payload, signature) == [kind |-> "receipt", payload |-> payload, signature |-> signature]
Absent == [kind |-> "absent"]
Torn == [kind |-> "torn"]

NoCheck == [step |-> "idle", given |-> "none", tool |-> "vitna", read |-> Absent, says |-> "none"]

\* verify_signature: the signature covers everything but itself.
VerifySignature(receipt, device) ==
  receipt.signature.by = device /\ receipt.signature.over = receipt.payload

--------------------------------------------------------------------------------
(* Files.                                                                     *)

Hand == hands < MaxHands /\ hands' = hands + 1

\* sign, with a key made if there is none yet.
SignReceipt ==
  /\ Hand
  /\ \E d \in Devices, b \in Bodies :
       LET payload == [body |-> b, form |-> "sound"]
       IN /\ receiptFile' = Receipt(payload, [by |-> d, over |-> payload])
          /\ signed' = signed \cup {<<d, payload>>}
          /\ keyed' = keyed \cup {d}
  /\ UNCHANGED check

\* What it says is changed, or its signature taken away; or the file is cut short, or goes.
ChangeReceipt ==
  /\ Hand
  /\ \/ /\ receiptFile.kind = "receipt"
        /\ receiptFile' \in {Receipt(p, receiptFile.signature) : p \in Payload}
                              \cup {Receipt(receiptFile.payload, Unsigned)}
     \/ receiptFile' \in {Absent, Torn}
  /\ UNCHANGED <<keyed, check, signed>>

--------------------------------------------------------------------------------
(* The check.                                                                 *)

StartCheck ==
  /\ check.step \in {"idle", "over"}
  /\ \E tool \in {"vitna", "standalone"}, k \in Devices \cup {"none", "malformed"} :
       check' = [NoCheck EXCEPT !.step = "read", !.tool = tool, !.given = k]
  /\ UNCHANGED <<receiptFile, keyed, signed, hands>>

Says(what) == check' = [check EXCEPT !.step = "over", !.says = what]

ReadReceipt ==
  /\ check.step = "read"
  /\ IF receiptFile.kind # "receipt" THEN Says("unreadable")
     ELSE check' = [check EXCEPT !.step = "form", !.read = receiptFile]
  /\ UNCHANGED <<receiptFile, keyed, signed, hands>>

\* verify_receipt without a key.  The standalone tool checks the signature with the rest.
CheckForm ==
  /\ check.step = "form"
  /\ IF check.tool = "standalone" /\ check.given = "malformed" THEN Says("error")
     ELSE IF check.read.payload.form = "wrong" THEN Says("failed")
     ELSE IF check.tool = "standalone" /\ check.given = "none" THEN Says("valid_unsigned")
     ELSE check' = [check EXCEPT !.step = "signature"]
  /\ UNCHANGED <<receiptFile, keyed, signed, hands>>

\* Against the key given, which must match, or else this account's if it has one.
Verdict(receipt) ==
  IF check.given = "malformed" THEN Says("error")
  ELSE IF check.given # "none"
  THEN Says(IF VerifySignature(receipt, check.given) THEN "verified" ELSE "failed")
  ELSE IF Here \notin keyed THEN Says("not_checked")
  ELSE Says(IF VerifySignature(receipt, Here) THEN "verified" ELSE "another_key")

\* Mutant: the file is read again for its signature.
CheckSignature_Rereads ==
  /\ check.step = "signature"
  /\ receiptFile.kind = "receipt"
  /\ Verdict(receiptFile)
  /\ UNCHANGED <<receiptFile, keyed, signed, hands>>

CheckSignature ==
  /\ check.step = "signature"
  /\ Verdict(check.read)
  /\ UNCHANGED <<receiptFile, keyed, signed, hands>>

CheckInit ==
  /\ receiptFile = Absent /\ keyed = {} /\ check = NoCheck
  /\ signed = {} /\ hands = 0

CheckNext ==
  \/ SignReceipt \/ ChangeReceipt
  \/ StartCheck \/ ReadReceipt \/ CheckForm \/ CheckSignature

\* What `vitna verify` and the standalone tool print is the receipt they checked: one that
\* is reported as verified is, word for word, what the key it was checked against signed,
\* whatever became of the file meanwhile.
VerifiedMeansSigned ==
  check.says = "verified" =>
    <<IF check.given = "none" THEN Here ELSE check.given, check.read.payload>> \in signed
================================================================================
