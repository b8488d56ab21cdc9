----------------------------- MODULE X402Payment -----------------------------
(***************************************************************************)
(* The paid request of a cycle: the path of twak-adapter/x402.ts, the      *)
(* payment through the TWAK CLI (cliExecutor.ts) or with the raw key of    *)
(* cmc-adapter/x402.ts, and what the main loop keeps of it: the receipt,   *)
(* and never the data.  A payment that fails may have moved the money.     *)
(***************************************************************************)
CONSTANTS
  X402Required,     \* X402_REQUIRED
  ViemFallback      \* X402_FALLBACK_VIEM with X402_PRIVATE_KEY

ASSUME X402Assumption == X402Required \in BOOLEAN /\ ViemFallback \in BOOLEAN

\* A live process has a TWAK signer, so it never pays with the raw key.
ChooseX402Path(live) ==
  IF live THEN "twak" ELSE IF ViemFallback THEN "viem_fallback" ELSE "none"

\* What a start of the worker warns of: a payment is required, and there is no
\* way to make one.
Unpayable(live) == X402Required /\ ChooseX402Path(live) = "none"

\* The CLI ends in time and prints JSON or not; in it there is an error or not, a
\* settlement id or not.
CliAnswers == [json : BOOLEAN, error : BOOLEAN, id : BOOLEAN]

PayX402(a) == IF a.json /\ ~a.error /\ a.id THEN "settled" ELSE "none"

\* The HTTP exchange: the first status, whether its body or challenge can be
\* parsed, and whether the retry with the signed authorization is answered.
HttpAnswers == [status : {"ok", "402", "other"}, parsed : BOOLEAN, retried : BOOLEAN]

CmcX402Get(a) ==
  CASE a.status = "ok" /\ a.parsed -> "free"
    [] a.status = "402" /\ a.parsed /\ a.retried -> "settled"
    [] OTHER -> "none"

Receipts(live) ==
  CASE ChooseX402Path(live) = "twak" -> {PayX402(a) : a \in CliAnswers}
    [] ChooseX402Path(live) = "viem_fallback" -> {CmcX402Get(a) : a \in HttpAnswers}
    [] OTHER -> {"none"}

\* The receipt goes on the audit log inside the same try: a failed append is a
\* failed payment, whatever was received.
Payments(live) == Receipts(live) \cup {"none"}

\* No way to pay, or the payment of this cycle failed: no trade is signed in it.
X402Blocks(live, payment) ==
  Unpayable(live) \/ (X402Required /\ payment = "none")
=============================================================================
