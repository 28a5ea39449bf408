--------------------------- MODULE OtpRefinement ---------------------------
(***************************************************************************)
(* The statements of OtpCodes implement OneTimeCodes: a code is live while *)
(* its row has not expired, and held while a request that read it with the *)
(* right code has not committed.                                           *)
(***************************************************************************)
EXTENDS OtpCodes

owner == [r \in DOMAIN code |-> <<code[r].email, code[r].purpose>>]
live == {r \in DOMAIN rows : Live(r)}
held == {tx[p].row : p \in {q \in Proc : pc[q] = "consume"}}
used == {r \in DOMAIN code : code[r].used}

Codes == INSTANCE OneTimeCodes WITH
           Email <- Email, Id <- Id, account <- users,
           owner <- owner, live <- live, held <- held, used <- used

\* Every behaviour of registrations, resends, resets, guesses and crashes is a
\* behaviour of the abstract codes and accounts (register, forgot_password,
\* resend_verification_email, _check_and_consume_otp): no account goes back,
\* no code dies but of its time, its lockout, its use or a rotation of its own
\* purpose, and none is redeemed that was not live when it was read.
ImplementsCodes == Codes!Spec
=============================================================================
