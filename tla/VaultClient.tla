----------------------------- MODULE VaultClient -----------------------------
(***************************************************************************)
(* client/cpp_client/vault_push.cpp: the class with which CertMgr logs in  *)
(* to Vault and pushes certificates into KV, one host after the other.     *)
(*                                                                         *)
(* One thread uses a client ("not thread-safe"). A call is a step that     *)
(* sends a request, steps of Vault, and a step that returns. A request may *)
(* be lost, its answer may be lost or cut, and Vault may act on a request  *)
(* after the caller gave up on it, or after its process ended. Each call   *)
(* has a number, which stands for the certificate it pushes, the token it  *)
(* acquires and the error text it sets.                                    *)
(***************************************************************************)
EXTENDS Naturals

CONSTANTS
    Hosts,          \* the FQDNs certificates are pushed for
    MaxCalls        \* bound: calls of Login and PushCert, together

ASSUME ClientBounds == MaxCalls \in Nat

VARIABLES
    secrets,    \* the caller's role_id and secret_id are still there
    token,      \* the login m_szToken is of, 0 while it is empty
    errorOf,    \* the call m_szLastError speaks of, 0 while it is empty
    codeOf,     \* the call m_nLastHttpCode is of, 0 before the first answer
    calls,      \* how many calls have been made
    op,         \* the call that has not returned yet
    answer,     \* what Vault answered to it
    returned,   \* the last call's outcome
    pending,    \* pushes on their way to Vault
    valid,      \* the tokens Vault accepts
    kv,         \* the call whose certificate is current for each host
    written     \* the calls whose certificates have been a host's version

client == <<secrets, token, errorOf, codeOf, calls>>
store == <<kv, written>>
server == <<valid, store>>
vars == <<client, op, answer, returned, pending, server>>

NoCall == 0
Idle == [name |-> "none"]
Logins == [name : {"Login"}, sent : BOOLEAN]
Pushes == [name : {"PushCert"}, host : Hosts]
Requests == [call : 1..MaxCalls, host : Hosts, token : 1..MaxCalls]

TypeOK ==
    /\ secrets \in BOOLEAN
    /\ calls \in 0..MaxCalls
    /\ token \in 0..calls /\ errorOf \in 0..calls /\ codeOf \in 0..calls
    /\ valid \subseteq 1..calls
    /\ op \in {Idle} \cup Logins \cup Pushes
    /\ answer \in {"none", "ok", "refused"}
    /\ returned \in {"nothing", "true", "false", "threw"}
    /\ pending \subseteq Requests
    /\ kv \in [Hosts -> 0..MaxCalls]
    /\ written \in [Hosts -> SUBSET (1..MaxCalls)]
    /\ op = Idle => answer = "none"

Init ==
    /\ secrets = TRUE
    /\ token = NoCall
    /\ valid = {}
    /\ errorOf = NoCall
    /\ codeOf = NoCall
    /\ calls = 0
    /\ op = Idle
    /\ answer = "none"
    /\ returned = "nothing"
    /\ pending = {}
    /\ kv = [h \in Hosts |-> NoCall]
    /\ written = [h \in Hosts |-> {}]

-----------------------------------------------------------------------------
(* Calls.                                                                  *)

Call ==
    /\ op = Idle
    /\ calls < MaxCalls
    /\ calls' = calls + 1

\* Mutant: what was received is left for the next call to append to.
ReturnKeepsAnswer(result) ==
    /\ op' = Idle
    /\ UNCHANGED answer
    /\ returned' = result

Return(result) ==
    /\ op' = Idle
    /\ answer' = "none"
    /\ returned' = result

\* Mutant: the body is sent with the credentials of an earlier call.
LoginRemembers ==
    /\ Call
    /\ op' = [name |-> "Login", sent |-> TRUE]
    /\ secrets' = FALSE
    /\ UNCHANGED <<token, errorOf, codeOf, answer, returned, pending, server>>

\* The strings are zeroed before the request is sent; a second Login of the same
\* caller sends empty ones.
Login ==
    /\ Call
    /\ op' = [name |-> "Login", sent |-> secrets]
    /\ secrets' = FALSE
    /\ UNCHANGED <<token, errorOf, codeOf, answer, returned, pending, server>>

PushCert(h) ==
    /\ Call
    /\ token # NoCall
    /\ op' = [name |-> "PushCert", host |-> h]
    /\ pending' = pending \cup {[call |-> calls', host |-> h, token |-> token]}
    /\ UNCHANGED <<secrets, token, errorOf, codeOf, answer, returned, server>>

\* "not authenticated -- call Login() first"
PushCertWithoutToken ==
    /\ Call
    /\ token = NoCall
    /\ errorOf' = calls'
    /\ Return("false")
    /\ UNCHANGED <<secrets, token, codeOf, pending, server>>

\* A Login or PushCert that has built its body and got into HttpPost.
Entered ==
    /\ Call
    /\ \/ secrets' = FALSE
       \/ token # NoCall /\ UNCHANGED secrets

\* curl_easy_init failed.
NoHandle ==
    /\ Entered
    /\ errorOf' = calls'
    /\ Return("false")
    /\ UNCHANGED <<token, codeOf, pending, server>>

\* A string of the body is not UTF-8: dump throws, and nothing here catches it.
Unencodable ==
    /\ Entered
    /\ secrets \/ token # NoCall
    /\ Return("threw")
    /\ UNCHANGED <<token, errorOf, codeOf, pending, server>>

\* The process ends, between two calls or in the middle of one, and starts again.
NewClient ==
    /\ secrets' = TRUE
    /\ token' = NoCall
    /\ errorOf' = NoCall
    /\ codeOf' = NoCall
    /\ Return("nothing")
    /\ UNCHANGED <<calls, pending, server>>

-----------------------------------------------------------------------------
(* Vault and the network.                                                  *)

Answer(a) ==
    /\ answer = "none"
    /\ answer' = a

VaultAuthenticates ==
    /\ op \in Logins
    /\ op.sent
    /\ Answer("ok")
    /\ valid' = valid \cup {calls}
    /\ UNCHANGED <<client, op, returned, pending, store>>

\* The credentials are empty, Vault is sealed, or the AppRole is gone.
VaultRefusesLogin ==
    /\ op \in Logins
    /\ Answer("refused")
    /\ UNCHANGED <<client, op, returned, pending, server>>

\* The call that has not returned is the one this request belongs to.
Awaited(r) == op \in Pushes /\ r.call = calls

\* A new version; nobody may be waiting for the answer any more.
VaultStores(r) ==
    /\ r \in pending
    /\ r.token \in valid
    /\ pending' = pending \ {r}
    /\ kv' = [kv EXCEPT ![r.host] = r.call]
    /\ written' = [written EXCEPT ![r.host] = @ \cup {r.call}]
    /\ answer' = IF Awaited(r) THEN "ok" ELSE answer
    /\ UNCHANGED <<client, valid, op, returned>>

\* The token expired, the policy does not allow it, or Vault is sealed.
VaultRefusesPush(r) ==
    /\ r \in pending
    /\ pending' = pending \ {r}
    /\ answer' = IF Awaited(r) THEN "refused" ELSE answer
    /\ UNCHANGED <<client, op, returned, server>>

RequestLost(r) ==
    /\ r \in pending
    /\ pending' = pending \ {r}
    /\ UNCHANGED <<client, op, answer, returned, server>>

\* token_ttl ends; nothing in the client knows.
TokenExpires(t) ==
    /\ valid' = valid \ {t}
    /\ UNCHANGED <<client, op, answer, returned, pending, store>>

-----------------------------------------------------------------------------
(* The end of HttpPost, and of its caller.                                 *)

\* Mutant: a push that was sent counts as done, whether it is answered or not.
TransportFailsTrusting ==
    /\ op # Idle
    /\ errorOf' = calls
    /\ Return(IF op \in Pushes THEN "true" ELSE "false")
    /\ UNCHANGED <<secrets, token, codeOf, calls, pending, server>>

\* No connection, or no answer in ten seconds: the status code stays that of an
\* earlier call.
TransportFails ==
    /\ op # Idle
    /\ errorOf' = calls
    /\ Return("false")
    /\ UNCHANGED <<secrets, token, codeOf, calls, pending, server>>

\* The body is empty or is no JSON, whatever the status said; or it is a login's
\* and has no client_token.
AnswerUnreadable ==
    /\ answer # "none"
    /\ errorOf' = calls
    /\ codeOf' = calls
    /\ Return("false")
    /\ UNCHANGED <<secrets, token, calls, pending, server>>

\* A number in the body is too large for a double: the parser's out_of_range is no
\* parse_error, and nothing here catches it.
AnswerOverflows ==
    /\ answer # "none"
    /\ codeOf' = calls
    /\ Return("threw")
    /\ UNCHANGED <<secrets, token, errorOf, calls, pending, server>>

\* Mutant: Login and PushCert leave it to HttpPost to set the error.
AnsweredRefusalSilent ==
    /\ answer = "refused"
    /\ codeOf' = calls
    /\ UNCHANGED errorOf
    /\ Return("false")
    /\ UNCHANGED <<secrets, token, calls, pending, server>>

\* Mutant: HttpPost returns true for any answer that it can parse.
AnsweredRefusalTaken ==
    /\ answer = "refused"
    /\ codeOf' = calls
    /\ UNCHANGED errorOf
    /\ Return("true")
    /\ UNCHANGED <<secrets, token, calls, pending, server>>

\* A status outside 2xx: the caller sets an error only if there is none yet.
AnsweredRefusal ==
    /\ answer = "refused"
    /\ codeOf' = calls
    /\ errorOf' = IF errorOf = NoCall THEN calls ELSE errorOf
    /\ Return("false")
    /\ UNCHANGED <<secrets, token, calls, pending, server>>

AnsweredLogin ==
    /\ op \in Logins
    /\ answer = "ok"
    /\ token' = calls
    /\ codeOf' = calls
    /\ Return("true")
    /\ UNCHANGED <<secrets, errorOf, calls, pending, server>>

\* Mutant: an answer that is cut counts as a refusal, without an error.
AnsweredPushCut ==
    /\ op \in Pushes
    /\ answer = "ok"
    /\ codeOf' = calls
    /\ errorOf' = IF errorOf = NoCall THEN calls ELSE errorOf
    /\ returned' \in {"true", "false"}
    /\ op' = Idle
    /\ answer' = "none"
    /\ UNCHANGED <<secrets, token, calls, pending, server>>

AnsweredPush ==
    /\ op \in Pushes
    /\ answer = "ok"
    /\ codeOf' = calls
    /\ Return("true")
    /\ UNCHANGED <<secrets, token, errorOf, calls, pending, server>>

Next ==
    \/ Login \/ PushCertWithoutToken \/ NoHandle \/ Unencodable
    \/ \E h \in Hosts : PushCert(h)
    \/ VaultAuthenticates \/ VaultRefusesLogin
    \/ \E t \in valid : TokenExpires(t)
    \/ \E r \in pending : VaultStores(r) \/ VaultRefusesPush(r) \/ RequestLost(r)
    \/ TransportFails \/ AnswerUnreadable \/ AnswerOverflows
    \/ AnsweredRefusal \/ AnsweredLogin \/ AnsweredPush
    \/ NewClient

Spec == Init /\ [][Next]_vars

-----------------------------------------------------------------------------
(* Properties.                                                             *)

\* PushCert returns true only for a certificate that has become a version of its
\* host's secret, with requests lost, late or refused around it.
TrueMeansWritten ==
    [][(op \in Pushes /\ returned' = "true" /\ op' = Idle) =>
          (calls \in written[op.host] /\ codeOf' = calls)]_vars

\* A call that failed left some error text ("LastError() has details on failure",
\* vault_push.hpp 63 and 71): there is never nothing at all to log.
FalseHasError == returned = "false" => errorOf # NoCall

\* A caller who sees a stale error text can at least rely on this: the push was
\* refused, and its certificate never becomes a version. Only errors of the
\* transport or of the parser, which are always the call's own, leave it open.
StaleErrorMeansUnwritten ==
    [][(op \in Pushes /\ returned' = "false" /\ op' = Idle /\ errorOf' # calls) =>
          (calls \notin written[op.host] /\ \A r \in pending : r.call # calls)]_vars

\* The client holds no token that Vault accepts, and no credentials to get one.
Stranded ==
    /\ token \notin valid
    /\ ~secrets
    /\ op \in Logins => ~op.sent

\* The price of zeroing the credentials in the first Login (vault_push.cpp 148), which
\* the class never gets back: once its token has expired, or that Login failed, no
\* order of Logins and PushCerts makes the client work again. Only a new one does.
StrandedForGood == [][Stranded => Stranded' \/ secrets']_vars
=============================================================================
