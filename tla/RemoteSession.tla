---------------------------- MODULE RemoteSession ----------------------------
(***************************************************************************)
(* run_remote_provider and _https_exchange of                              *)
(* src/aecctx/providers/remote.py: at most MaxAttempts exchanges of one    *)
(* byte-identical request over connections of their own.  A request may be *)
(* executed by the provider although its answer is late or lost, so that a *)
(* retry may repeat what was already done and is paid for.                 *)
(*                                                                         *)
(* The consents and identities of the policy are checked before (module    *)
(* ProviderRunner); run_remote_provider checks them again, on unchanged    *)
(* values.                                                                 *)
(***************************************************************************)
EXTENDS Naturals, Sequences

CONSTANTS
  MaxAttempts,  \* policy.max_attempts
  NoAnswer      \* nothing has arrived on the connection

VARIABLES
  runnerPc, outcome, \* of ProviderRunner.run
  attempt,      \* number of the current attempt, 0 before the first
  peer,         \* peer[n]: who answered the TLS handshake of attempt n
  received,     \* attempts whose request and credential reached the peer
  executed,     \* attempts the provider has executed
  answer,       \* what has arrived on the connection of the current attempt
  history       \* how each finished attempt ended

remoteVars == <<attempt, peer, received, executed, answer, history>>

Retryable == {"TIMEOUT", "TRANSPORT_FAILED", "RATE_LIMITED"}

\* What a received answer amounts to: status line, digest of the body, strict
\* JSON, secret, envelope (version, request digest, identity, region,
\* retention, telemetry), artifacts and response, in this order.
Terminal == {"REDIRECT_DENIED", "AUTH_FAILED", "HTTP_FAILED", "RESPONSE_LIMIT_EXCEEDED", "DIGEST_MISMATCH",
             "RESPONSE_INVALID", "SECRET_LEAK", "ENVELOPE_REFUSED", "RESPONSE_REFUSED"}
Answers == Terminal \cup {"RATE_LIMITED", "accepted"}

Init ==
  /\ attempt = 0
  /\ peer = [n \in 1..MaxAttempts |-> "none"]
  /\ received = {}
  /\ executed = {}
  /\ answer = NoAnswer
  /\ history = <<>>

\* Mutant: every refusal of the remote side is tried again.
EndAttemptRetryAll(code) ==
  /\ history' = Append(history, code)
  /\ answer' = NoAnswer
  /\ IF code # "accepted"
       THEN runnerPc' = "retry" /\ UNCHANGED outcome
       ELSE runnerPc' = "ended" /\ outcome' = code

\* The except clause of the loop; the connection is closed in every case.
EndAttempt(code) ==
  /\ history' = Append(history, code)
  /\ answer' = NoAnswer
  /\ IF code \in Retryable
       THEN runnerPc' = "retry" /\ UNCHANGED outcome
       ELSE runnerPc' = "ended" /\ outcome' = code

Lost == EndAttempt("TIMEOUT") \/ EndAttempt("TRANSPORT_FAILED")

\* Mutant: the bound is on the retries instead of the attempts.
NextAttemptOneMore ==
  /\ runnerPc = "retry"
  /\ IF attempt <= MaxAttempts
       THEN attempt' = attempt + 1 /\ runnerPc' = "connect" /\ UNCHANGED outcome
       ELSE runnerPc' = "ended" /\ outcome' = "RETRY_EXHAUSTED" /\ UNCHANGED attempt
  /\ UNCHANGED <<peer, received, executed, answer, history>>

\* The for statement, after the sleep of the fixed delay.
NextAttempt ==
  /\ runnerPc = "retry"
  /\ IF attempt < MaxAttempts
       THEN attempt' = attempt + 1 /\ runnerPc' = "connect" /\ UNCHANGED outcome
       ELSE runnerPc' = "ended" /\ outcome' = "RETRY_EXHAUSTED" /\ UNCHANGED attempt
  /\ UNCHANGED <<peer, received, executed, answer, history>>

Connect ==
  /\ runnerPc = "connect"
  /\ \/ \E p \in {"pinned", "other"} : peer' = [peer EXCEPT ![attempt] = p]
        /\ runnerPc' = "pin" /\ UNCHANGED <<outcome, answer, history>>
     \/ Lost /\ UNCHANGED peer
  /\ UNCHANGED <<attempt, received, executed>>

\* Mutant: the pin is checked on the first connection only.
CheckPinOnce ==
  /\ runnerPc = "pin"
  /\ IF peer[1] \in {"pinned", "none"}
       THEN runnerPc' = "send" /\ UNCHANGED <<outcome, answer, history>>
       ELSE EndAttempt("TLS_IDENTITY_FAILED")
  /\ UNCHANGED <<attempt, peer, received, executed>>

\* The digest of the peer's public key against that of the registration, with
\* the cryptography package, which may not be installed.
CheckPin ==
  /\ runnerPc = "pin"
  /\ \/ EndAttempt("DEPENDENCY_UNAVAILABLE")
     \/ IF peer[attempt] = "pinned"
          THEN runnerPc' = "send" /\ UNCHANGED <<outcome, answer, history>>
          ELSE EndAttempt("TLS_IDENTITY_FAILED")
  /\ UNCHANGED <<attempt, peer, received, executed>>

\* A send that fails may have delivered the request all the same.
Send ==
  /\ runnerPc = "send"
  /\ \/ received' = received \cup {attempt} /\ runnerPc' = "answer" /\ UNCHANGED <<outcome, answer, history>>
     \/ received' \in {received, received \cup {attempt}} /\ Lost
  /\ UNCHANGED <<attempt, peer, executed>>

ReadAnswer ==
  /\ runnerPc = "answer"
  /\ answer # NoAnswer
  /\ EndAttempt(answer)
  /\ UNCHANGED <<attempt, peer, received, executed>>

LoseAnswer ==
  /\ runnerPc = "answer"
  /\ Lost
  /\ UNCHANGED <<attempt, peer, received, executed>>

Step == NextAttempt \/ Connect \/ CheckPin \/ Send \/ ReadAnswer \/ LoseAnswer

Interrupt ==
  /\ runnerPc \in {"retry", "connect", "pin", "send", "answer"}
  /\ runnerPc' = "ended"
  /\ outcome' = "raised"
  /\ UNCHANGED remoteVars

-----------------------------------------------------------------------------
(* The provider.                                                           *)

\* A request is executed at most once per delivery, at any time after it.
Execute ==
  /\ \E n \in received \ executed : executed' = executed \cup {n}
  /\ UNCHANGED <<runnerPc, outcome, attempt, peer, received, answer, history>>

\* A result answers the request, whichever attempt delivered it.
Answer ==
  /\ runnerPc = "answer"
  /\ answer = NoAnswer
  /\ \E a \in Answers : (a = "accepted" => executed # {}) /\ answer' = a
  /\ UNCHANGED <<runnerPc, outcome, attempt, peer, received, executed, history>>

Environment == Interrupt \/ Execute \/ Answer
Next == Step \/ Environment
=============================================================================
