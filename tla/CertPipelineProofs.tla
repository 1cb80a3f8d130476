------------------------- MODULE CertPipelineProofs -------------------------
(***************************************************************************)
(* Proofs about VaultClient and CertPipeline for any number of hosts and   *)
(* calls: what a caller may conclude from the outcome of PushCert and from *)
(* LastError, and what is current in Vault, and in service, against what   *)
(* PushCert reported.                                                      *)
(***************************************************************************)
EXTENDS CertPipeline, TLAPS

-----------------------------------------------------------------------------
(* The push client.                                                        *)

\* No request and no version is of a call that has not been made, and a call has
\* one request.
Numbered ==
    /\ op # Idle => calls > NoCall
    /\ \A r \in pending : r.call <= calls
    /\ \A q, r \in pending : q.call = r.call => q = r
    /\ \A h \in Hosts : \A c \in written[h] : c <= calls

\* As long as the request of the waiting call is on its way there is no answer to
\* it and no version of it.
OnItsWay ==
    op \in Pushes =>
        \A r \in pending : r.call = calls =>
            r.host = op.host /\ answer = "none" /\ calls \notin written[op.host]

\* An answer tells what became of the request.
AnswerIsTrue ==
    op \in Pushes =>
        /\ answer = "ok" => calls \in written[op.host]
        /\ answer = "refused" => calls \notin written[op.host]

\* Only a login that was sent with the credentials is answered with a token.
UnsentUnanswered == op \in Logins /\ answer = "ok" => op.sent

\* The invariant that every step preserves.
IInv ==
    /\ TypeOK
    /\ Numbered
    /\ OnItsWay
    /\ AnswerIsTrue
    /\ FalseHasError

-----------------------------------------------------------------------------
\* A call is a login, a push, or none at all.
LEMMA KindsOfCalls ==
    /\ Idle \notin Logins
    /\ Idle \notin Pushes
    /\ Logins \cap Pushes = {}
BY DEF Idle, Logins, Pushes

\* The invariant holds of a client that has just been constructed.
LEMMA InitIInv == Init => IInv
<1> SUFFICES ASSUME Init
             PROVE  IInv
    OBVIOUS
<1> USE ClientBounds DEF NoCall
<1>1. kv \in [Hosts -> 0..MaxCalls] /\ written \in [Hosts -> SUBSET (1..MaxCalls)]
    BY DEF Init
<1>2. TypeOK
    <2>1. /\ calls \in 0..MaxCalls /\ secrets \in BOOLEAN /\ valid \subseteq 1..calls
          /\ errorOf \in 0..calls /\ codeOf \in 0..calls /\ token \in 0..calls
        BY DEF Init
    <2>2. /\ op \in {Idle} \cup Logins \cup Pushes
          /\ answer = "none" /\ returned = "nothing" /\ pending = {}
        BY DEF Init
    <2> QED
        BY <1>1, <2>1, <2>2 DEF TypeOK
<1>3. Numbered
    BY DEF Init, Numbered
<1>4. OnItsWay /\ AnswerIsTrue /\ FalseHasError
    BY KindsOfCalls DEF Init, OnItsWay, AnswerIsTrue, FalseHasError
<1> QED
    BY <1>2, <1>3, <1>4 DEF IInv

\* A call that ends in the step it begins with, and the end of the process, leave
\* nothing that waits.
LEMMA AtRestKeepsIInv ==
    ASSUME IInv,
           op' = Idle, answer' = "none", secrets' \in BOOLEAN,
           calls' \in {calls, calls + 1}, calls' \in 0..MaxCalls,
           token' \in {NoCall, token}, codeOf' \in {NoCall, codeOf},
           \/ returned' = "false" /\ errorOf' = calls' /\ calls' = calls + 1
           \/ returned' \in {"nothing", "threw"} /\ errorOf' \in {NoCall, errorOf},
           UNCHANGED <<pending, server>>
    PROVE  IInv'
<1> USE ClientBounds DEF NoCall
<1>1. calls \in Nat /\ calls' \in Nat /\ calls <= calls'
    BY DEF IInv, TypeOK
<1>2. UNCHANGED <<pending, valid, kv, written>>
    BY DEF server, store
<1>3. TypeOK'
    <2>1. token' \in 0..calls' /\ errorOf' \in 0..calls' /\ codeOf' \in 0..calls'
        BY <1>1 DEF IInv, TypeOK
    <2>2. valid' \subseteq 1..calls'
        BY <1>1, <1>2 DEF IInv, TypeOK
    <2>3. returned' \in {"nothing", "true", "false", "threw"}
        OBVIOUS
    <2> QED
        BY <1>2, <2>1, <2>2, <2>3 DEF IInv, TypeOK
<1>4. Numbered'
    <2>1. /\ \A r \in pending' : r.call <= calls'
          /\ \A q, r \in pending' : q.call = r.call => q = r
        BY <1>1, <1>2 DEF IInv, TypeOK, Numbered, Requests
    <2>2. \A h \in Hosts : \A c \in written'[h] : c <= calls'
        BY <1>1, <1>2, <1>3 DEF IInv, TypeOK, Numbered
    <2> QED
        BY <2>1, <2>2 DEF Numbered
<1>5. OnItsWay' /\ AnswerIsTrue'
    BY KindsOfCalls DEF OnItsWay, AnswerIsTrue
<1>6. FalseHasError'
    BY <1>1 DEF FalseHasError
<1> QED
    BY <1>3, <1>4, <1>5, <1>6 DEF IInv

\* The steps that begin a call.
LEMMA CallsKeepIInv ==
    ASSUME IInv,
           \/ Login \/ PushCertWithoutToken \/ NoHandle \/ Unencodable
           \/ \E h \in Hosts : PushCert(h)
    PROVE  IInv'
<1> USE ClientBounds DEF NoCall
<1>0. /\ calls' \in 1..MaxCalls /\ calls' = calls + 1 /\ op = Idle /\ answer = "none"
      /\ calls \in Nat
    BY DEF IInv, TypeOK, Login, PushCertWithoutToken, NoHandle, Unencodable, Entered,
           PushCert, Call
<1>1. CASE Login
    <2>1. op' \in Logins
        BY <1>1 DEF Login, Logins, IInv, TypeOK
    <2>2. UNCHANGED <<token, errorOf, codeOf, answer, returned, pending, valid, kv, written>>
        BY <1>1 DEF Login, server, store
    <2>3. TypeOK'
        <3>1. op' # Idle
            BY <2>1, KindsOfCalls
        <3>2. token' \in 0..calls' /\ errorOf' \in 0..calls' /\ codeOf' \in 0..calls'
            BY <1>0, <2>2 DEF IInv, TypeOK
        <3>3. secrets' \in BOOLEAN
            BY <1>1 DEF Login
        <3>4. valid' \subseteq 1..calls'
            BY <1>0, <2>2 DEF IInv, TypeOK
        <3> QED
            BY <1>0, <2>1, <2>2, <3>1, <3>2, <3>3, <3>4 DEF IInv, TypeOK
    <2>4. Numbered'
        BY <1>0, <2>2 DEF IInv, TypeOK, Numbered, Requests
    <2>5. OnItsWay' /\ AnswerIsTrue'
        BY <2>1, KindsOfCalls DEF OnItsWay, AnswerIsTrue
    <2>6. FalseHasError'
        BY <2>2 DEF IInv, FalseHasError
    <2> QED
        BY <2>3, <2>4, <2>5, <2>6 DEF IInv
<1>2. CASE PushCertWithoutToken \/ NoHandle \/ Unencodable
    <2>1. /\ op' = Idle /\ answer' = "none" /\ UNCHANGED <<pending, server>>
          /\ \/ returned' = "false" /\ errorOf' = calls'
             \/ returned' = "threw" /\ errorOf' = errorOf
          /\ token' = token /\ codeOf' = codeOf
        BY <1>2 DEF PushCertWithoutToken, NoHandle, Unencodable, Return
    <2>2. secrets' \in BOOLEAN
        BY <1>2 DEF PushCertWithoutToken, NoHandle, Unencodable, Entered, IInv, TypeOK
    <2>3. /\ calls' \in {calls, calls + 1} /\ calls' \in 0..MaxCalls
          /\ token' \in {NoCall, token} /\ codeOf' \in {NoCall, codeOf}
        BY <1>0, <2>1
    <2> QED
        BY <1>0, <2>1, <2>2, <2>3, AtRestKeepsIInv
<1>3. ASSUME NEW h \in Hosts, PushCert(h)
      PROVE  IInv'
    <2> DEFINE new == [call |-> calls', host |-> h, token |-> token]
    <2>1. op' \in Pushes /\ op'.host = h
        BY <1>3 DEF PushCert, Pushes
    <2>2. pending' = pending \cup {new} /\ new \in Requests
        <3>1. token \in 1..MaxCalls
            BY <1>0, <1>3 DEF PushCert, IInv, TypeOK
        <3> QED
            BY <1>0, <1>3, <3>1 DEF PushCert, Requests
    <2>3. UNCHANGED <<secrets, token, errorOf, codeOf, answer, returned, valid, kv, written>>
        BY <1>3 DEF PushCert, server, store
    <2>4. TypeOK'
        <3>1. op' # Idle
            BY <2>1, KindsOfCalls
        <3>2. token' \in 0..calls' /\ errorOf' \in 0..calls' /\ codeOf' \in 0..calls'
            BY <1>0, <2>3 DEF IInv, TypeOK
        <3>3. valid' \subseteq 1..calls'
            BY <1>0, <2>3 DEF IInv, TypeOK
        <3> QED
            BY <1>0, <2>1, <2>2, <2>3, <3>1, <3>2, <3>3 DEF IInv, TypeOK
    <2>5. /\ \A r \in pending : r.call < calls'
          /\ \A g \in Hosts : \A c \in written'[g] : c < calls'
        BY <1>0, <2>3 DEF IInv, TypeOK, Numbered, Requests
    <2>6. Numbered'
        <3>1. op' # Idle => calls' > 0
            BY <1>0
        <3>2. \A r \in pending' : r.call <= calls'
            BY <1>0, <2>2, <2>5 DEF IInv, TypeOK, Requests
        <3>3. \A g \in Hosts : \A c \in written'[g] : c <= calls'
            BY <1>0, <2>4, <2>5 DEF TypeOK
        <3>4. ASSUME NEW q \in pending', NEW r \in pending', q.call = r.call
              PROVE  q = r
            <4>1. CASE q \in pending /\ r \in pending
                BY <3>4, <4>1 DEF IInv, Numbered
            <4>2. new.call = calls'
                OBVIOUS
            <4> QED
                BY <1>0, <2>2, <2>5, <3>4, <4>1, <4>2 DEF IInv, TypeOK, Requests
        <3> QED
            BY <3>1, <3>2, <3>3, <3>4 DEF Numbered
    <2>7. answer' = "none" /\ calls' \notin written'[h]
        <3>1. written'[h] \subseteq 1..MaxCalls
            BY <2>4 DEF TypeOK
        <3> QED
            BY <1>0, <2>3, <2>5, <3>1
    <2>8. OnItsWay'
        <3>1. ASSUME NEW r \in pending', r.call = calls'
              PROVE  r = new
            BY <1>0, <2>2, <2>5, <3>1 DEF IInv, TypeOK, Requests
        <3> QED
            BY <2>1, <2>7, <3>1 DEF OnItsWay
    <2>9. AnswerIsTrue'
        BY <2>7 DEF AnswerIsTrue
    <2>10. FalseHasError'
        BY <2>3 DEF IInv, FalseHasError
    <2> QED
        BY <2>4, <2>6, <2>8, <2>9, <2>10 DEF IInv
<1> QED
    BY <1>1, <1>2, <1>3

\* The end of the process, in the middle of a call or not, and its restart.
LEMMA NewClientKeepsIInv == IInv /\ NewClient => IInv'
<1> SUFFICES ASSUME IInv, NewClient
             PROVE  IInv'
    OBVIOUS
<1>1. calls' = calls /\ calls \in 0..MaxCalls
    BY DEF NewClient, IInv, TypeOK
<1>2. /\ op' = Idle /\ answer' = "none" /\ returned' = "nothing" /\ secrets' \in BOOLEAN
      /\ token' = NoCall /\ errorOf' = NoCall /\ codeOf' = NoCall
      /\ UNCHANGED <<pending, server>>
    BY DEF NewClient, Return
<1> QED
    BY <1>1, <1>2, AtRestKeepsIInv

\* The steps of Vault and of the network.
LEMMA VaultKeepsIInv ==
    ASSUME IInv,
           \/ VaultAuthenticates \/ VaultRefusesLogin
           \/ \E t \in valid : TokenExpires(t)
           \/ \E r \in pending : VaultStores(r) \/ VaultRefusesPush(r) \/ RequestLost(r)
    PROVE  IInv'
<1> USE ClientBounds DEF NoCall
<1>1. CASE VaultAuthenticates \/ VaultRefusesLogin
    <2>1. op \in Logins /\ op' = op /\ answer' \in {"ok", "refused"}
        BY <1>1 DEF VaultAuthenticates, VaultRefusesLogin, Answer
    <2>2. UNCHANGED <<client, returned, pending, store>>
        BY <1>1 DEF VaultAuthenticates, VaultRefusesLogin, server
    <2>3. op # Idle
        BY <2>1, KindsOfCalls
    <2>4. valid' \subseteq 1..calls'
        <3>1. calls' = calls /\ calls \in Nat /\ calls > 0 /\ valid \subseteq 1..calls
            BY <2>2, <2>3 DEF client, IInv, TypeOK, Numbered
        <3>2. valid' = valid \cup {calls} \/ valid' = valid
            BY <1>1 DEF VaultAuthenticates, VaultRefusesLogin, server
        <3>3. calls \in 1..calls
            BY <3>1
        <3> QED
            BY <3>1, <3>2, <3>3
    <2>5. TypeOK'
        BY <2>1, <2>2, <2>3, <2>4 DEF IInv, TypeOK, client, store
    <2>6. Numbered' /\ FalseHasError'
        BY <2>1, <2>2, <2>3 DEF IInv, Numbered, FalseHasError, client, store
    <2>7. OnItsWay' /\ AnswerIsTrue'
        BY <2>1, KindsOfCalls DEF OnItsWay, AnswerIsTrue
    <2> QED
        BY <2>5, <2>6, <2>7 DEF IInv
<1>2. ASSUME NEW t \in valid, TokenExpires(t)
      PROVE  IInv'
    BY <1>2 DEF TokenExpires, store, IInv, TypeOK, Numbered, OnItsWay, AnswerIsTrue,
                FalseHasError, client, server, store
<1>3. ASSUME NEW r \in pending, VaultStores(r)
      PROVE  IInv'
    <2>1. r \in Requests /\ r.host \in Hosts /\ r.call \in 1..MaxCalls
        BY DEF IInv, TypeOK, Requests
    <2>2. /\ pending' = pending \ {r}
          /\ kv' = [kv EXCEPT ![r.host] = r.call]
          /\ written' = [written EXCEPT ![r.host] = @ \cup {r.call}]
          /\ answer' = IF Awaited(r) THEN "ok" ELSE answer
          /\ UNCHANGED <<client, valid, op, returned>>
        BY <1>3 DEF VaultStores
    <2>3. Awaited(r) => op # Idle
        BY KindsOfCalls DEF Awaited
    <2>4. TypeOK'
        BY <2>1, <2>2, <2>3 DEF IInv, TypeOK, client
    <2>5. Numbered'
        <3>1. calls' = calls /\ op' = op /\ r.call <= calls
            BY <2>2 DEF client, IInv, Numbered
        <3>2. \A h \in Hosts : \A c \in written'[h] : c <= calls'
            BY <2>1, <2>2, <3>1 DEF IInv, TypeOK, Numbered
        <3> QED
            BY <2>2, <3>1, <3>2 DEF IInv, Numbered
    <2>6. op \in Pushes => op.host \in Hosts
        BY DEF Pushes
    <2>7. ASSUME op \in Pushes, r.call = calls
          PROVE  OnItsWay' /\ AnswerIsTrue'
        <3>1. r.host = op.host /\ Awaited(r)
            BY <2>7 DEF IInv, OnItsWay, Awaited
        <3>2. \A q \in pending' : q.call # calls
            <4>1. SUFFICES ASSUME NEW q \in pending', q.call = calls
                           PROVE  FALSE
                OBVIOUS
            <4>2. q \in pending /\ q.host = op.host /\ q \in Requests
                BY <2>2, <2>7, <4>1 DEF IInv, TypeOK, OnItsWay
            <4>3. q = r
                BY <2>7, <4>1, <4>2 DEF IInv, Numbered
            <4> QED
                BY <2>2, <4>1, <4>3
        <3>3. calls \in written'[op.host] /\ answer' = "ok"
            BY <2>1, <2>2, <2>7, <3>1 DEF IInv, TypeOK
        <3> QED
            BY <2>2, <3>2, <3>3 DEF OnItsWay, AnswerIsTrue, client
    <2>8. ASSUME op \in Pushes, r.call # calls
          PROVE  OnItsWay' /\ AnswerIsTrue'
        <3>1. answer' = answer
            BY <2>2, <2>8 DEF Awaited
        <3>2. calls \in written'[op.host] <=> calls \in written[op.host]
            BY <2>1, <2>2, <2>6, <2>8 DEF IInv, TypeOK
        <3> QED
            BY <2>2, <2>8, <3>1, <3>2 DEF IInv, OnItsWay, AnswerIsTrue, client
    <2>9. op \notin Pushes => OnItsWay' /\ AnswerIsTrue'
        BY <2>2 DEF OnItsWay, AnswerIsTrue
    <2>10. FalseHasError'
        BY <2>2 DEF IInv, FalseHasError, client
    <2> QED
        BY <2>4, <2>5, <2>7, <2>8, <2>9, <2>10 DEF IInv
<1>4. ASSUME NEW r \in pending, VaultRefusesPush(r)
      PROVE  IInv'
    <2>1. r \in Requests
        BY DEF IInv, TypeOK
    <2>2. /\ pending' = pending \ {r}
          /\ answer' = IF Awaited(r) THEN "refused" ELSE answer
          /\ UNCHANGED <<client, op, returned, server>>
        BY <1>4 DEF VaultRefusesPush
    <2>3. TypeOK'
        BY <2>2, KindsOfCalls DEF IInv, TypeOK, Awaited, client, server, store
    <2>4. Numbered' /\ FalseHasError'
        BY <2>2 DEF IInv, Numbered, FalseHasError, client, server, store
    <2>5. ASSUME op \in Pushes, r.call = calls
          PROVE  OnItsWay' /\ AnswerIsTrue'
        <3>1. r.host = op.host /\ Awaited(r) /\ calls \notin written[op.host]
            BY <2>5 DEF IInv, OnItsWay, Awaited
        <3>2. \A q \in pending' : q.call # calls
            <4>1. SUFFICES ASSUME NEW q \in pending', q.call = calls
                           PROVE  FALSE
                OBVIOUS
            <4>2. q \in pending /\ q.host = op.host /\ q \in Requests
                BY <2>2, <2>5, <4>1 DEF IInv, TypeOK, OnItsWay
            <4>3. q = r
                BY <2>5, <4>1, <4>2 DEF IInv, Numbered
            <4> QED
                BY <2>2, <4>1, <4>3
        <3> QED
            BY <2>2, <3>1, <3>2 DEF OnItsWay, AnswerIsTrue, client, server, store
    <2>6. ASSUME op \in Pushes, r.call # calls
          PROVE  OnItsWay' /\ AnswerIsTrue'
        BY <2>2, <2>6 DEF IInv, OnItsWay, AnswerIsTrue, Awaited, client, server, store
    <2>7. op \notin Pushes => OnItsWay' /\ AnswerIsTrue'
        BY <2>2 DEF OnItsWay, AnswerIsTrue
    <2> QED
        BY <2>3, <2>4, <2>5, <2>6, <2>7 DEF IInv
<1>5. ASSUME NEW r \in pending, RequestLost(r)
      PROVE  IInv'
    BY <1>5 DEF RequestLost, IInv, TypeOK, Numbered, OnItsWay, AnswerIsTrue,
                FalseHasError, client, server, store
<1> QED
    BY <1>1, <1>2, <1>3, <1>4, <1>5

\* The steps that return from a call: nothing waits any more, and a call that
\* returns false leaves an error text, its own or an earlier one.
LEMMA ReturnsKeepIInv ==
    ASSUME IInv,
           TransportFails \/ AnswerUnreadable \/ AnswerOverflows \/ AnsweredRefusal
               \/ AnsweredLogin \/ AnsweredPush
    PROVE  IInv'
<1> USE ClientBounds DEF NoCall
<1>1. op # Idle
    BY KindsOfCalls DEF IInv, TypeOK, TransportFails, AnswerUnreadable, AnswerOverflows,
       AnsweredRefusal, AnsweredLogin, AnsweredPush
<1>2. calls \in 1..MaxCalls
    BY <1>1 DEF IInv, TypeOK, Numbered
<1>3. /\ op' = Idle /\ answer' = "none" /\ returned' \in {"true", "false", "threw"}
      /\ UNCHANGED <<secrets, calls, pending, valid, kv, written>>
    BY DEF TransportFails, AnswerUnreadable, AnswerOverflows, AnsweredRefusal, AnsweredLogin,
       AnsweredPush, Return, server, store
<1>4. /\ errorOf' \in {errorOf, calls} /\ codeOf' \in {codeOf, calls}
      /\ token' \in {token, calls}
    BY DEF IInv, TypeOK, TransportFails, AnswerUnreadable, AnswerOverflows, AnsweredRefusal,
       AnsweredLogin, AnsweredPush
<1>5. TypeOK'
    BY <1>2, <1>3, <1>4 DEF IInv, TypeOK
<1>6. Numbered' /\ OnItsWay' /\ AnswerIsTrue'
    BY <1>3, KindsOfCalls DEF IInv, Numbered, OnItsWay, AnswerIsTrue
<1>7. FalseHasError'
    BY <1>2, <1>3 DEF IInv, TypeOK, FalseHasError, TransportFails,
       AnswerUnreadable, AnswerOverflows, AnsweredRefusal, AnsweredLogin, AnsweredPush, Return
<1> QED
    BY <1>5, <1>6, <1>7 DEF IInv

\* Every step, and every stutter, preserves the invariant.
LEMMA NextIInv == IInv /\ [Next]_vars => IInv'
<1> SUFFICES ASSUME IInv, [Next]_vars
             PROVE  IInv'
    OBVIOUS
<1>1. CASE UNCHANGED vars
    BY <1>1 DEF vars, client, server, store, IInv, TypeOK, Numbered, OnItsWay,
                AnswerIsTrue, FalseHasError
<1>2. CASE Next
    BY <1>2, CallsKeepIInv, VaultKeepsIInv, ReturnsKeepIInv, NewClientKeepsIInv DEF Next
<1> QED
    BY <1>1, <1>2

\* The invariant holds throughout.
LEMMA AlwaysIInv == Spec => []IInv
BY InitIInv, NextIInv, PTL DEF Spec

-----------------------------------------------------------------------------
\* All variables keep their types, and there is no answer without a call
\* (vault_push.hpp, the members of VaultClient).
THEOREM ClientTypes == Spec => []TypeOK
<1>1. IInv => TypeOK
    BY DEF IInv
<1> QED
    BY <1>1, AlwaysIInv, PTL

\* Whenever a call has returned false, LastError is not empty (vault_push.cpp
\* 70-203: every path that returns false has set it, or found it set).
THEOREM FailuresHaveAnError == Spec => []FalseHasError
<1>1. IInv => FalseHasError
    BY DEF IInv
<1> QED
    BY <1>1, AlwaysIInv, PTL

\* What PushCert reports as pushed is a version of the host's secret.
THEOREM TrueIsWritten == Spec => TrueMeansWritten
<1>1. IInv /\ [Next]_vars =>
          [(op \in Pushes /\ returned' = "true" /\ op' = Idle) =>
              (calls \in written[op.host] /\ codeOf' = calls)]_vars
    <2> SUFFICES ASSUME IInv, Next, op \in Pushes, returned' = "true", op' = Idle
                 PROVE  calls \in written[op.host] /\ codeOf' = calls
        OBVIOUS
    <2>1. op # Idle
        BY KindsOfCalls
    <2>2. AnsweredPush
        BY <2>1, KindsOfCalls
           DEF Next, Login, PushCertWithoutToken, NoHandle, Unencodable, Entered,
               NewClient, PushCert, Call, Return,
               VaultAuthenticates, VaultRefusesLogin, TokenExpires, VaultStores,
               VaultRefusesPush, RequestLost, TransportFails, AnswerUnreadable,
               AnswerOverflows,
               AnsweredRefusal, AnsweredLogin
    <2> QED
        BY <2>2 DEF AnsweredPush, IInv, AnswerIsTrue
<1> QED
    BY <1>1, AlwaysIInv, PTL DEF Spec, TrueMeansWritten

\* A push that fails without an error of its own was refused: neither now nor
\* later does its certificate become a version.
THEOREM StaleErrorIsRefusal == Spec => StaleErrorMeansUnwritten
<1>1. IInv /\ [Next]_vars =>
          [(op \in Pushes /\ returned' = "false" /\ op' = Idle /\ errorOf' # calls) =>
              (calls \notin written[op.host] /\ \A r \in pending : r.call # calls)]_vars
    <2> SUFFICES ASSUME IInv, Next, op \in Pushes, returned' = "false", op' = Idle,
                        errorOf' # calls
                 PROVE  calls \notin written[op.host] /\ \A r \in pending : r.call # calls
        OBVIOUS
    <2>1. op # Idle
        BY KindsOfCalls
    <2>2. AnsweredRefusal
        BY <2>1, KindsOfCalls
           DEF Next, Login, PushCertWithoutToken, NoHandle, Unencodable, Entered,
               NewClient, PushCert, Call, Return,
               VaultAuthenticates, VaultRefusesLogin, TokenExpires, VaultStores,
               VaultRefusesPush, RequestLost, TransportFails, AnswerUnreadable,
               AnswerOverflows,
               AnsweredLogin, AnsweredPush
    <2>3. answer = "refused"
        BY <2>2 DEF AnsweredRefusal
    <2> QED
        BY <2>3 DEF IInv, AnswerIsTrue, OnItsWay
<1> QED
    BY <1>1, AlwaysIInv, PTL DEF Spec, StaleErrorMeansUnwritten
\* The requirement on answered logins holds throughout.
LEMMA AlwaysUnsentUnanswered == Spec => []UnsentUnanswered
<1>1. Init => UnsentUnanswered
    BY DEF Init, UnsentUnanswered
<1>2. IInv /\ UnsentUnanswered /\ [Next]_vars => UnsentUnanswered'
    <2> SUFFICES ASSUME IInv, UnsentUnanswered, [Next]_vars,
                        op' \in Logins, answer' = "ok"
                 PROVE  op'.sent
        BY DEF UnsentUnanswered
    <2>1. op = Idle => answer = "none"
        BY DEF IInv, TypeOK
    <2>2. op' # Idle /\ op' \notin Pushes
        BY KindsOfCalls
    <2>3. CASE op' = op /\ answer' = answer
        BY <2>3 DEF UnsentUnanswered
    <2>4. CASE VaultAuthenticates
        BY <2>4 DEF VaultAuthenticates
    <2>5. CASE Login
        BY <2>1, <2>5 DEF Login, Call
    <2>6. ASSUME NEW h \in Hosts, PushCert(h)
          PROVE  FALSE
        BY <2>2, <2>6 DEF PushCert, Pushes
    <2>7. ASSUME NEW r \in pending, VaultStores(r) \/ VaultRefusesPush(r)
          PROVE  answer' = answer /\ op' = op
        BY <2>2, <2>7 DEF VaultStores, VaultRefusesPush, Awaited
    <2>8. CASE UNCHANGED vars
        BY <2>3, <2>8 DEF vars
    <2>9. CASE Next
        BY <2>2, <2>3, <2>4, <2>5, <2>6, <2>7, <2>9
           DEF Next, PushCertWithoutToken, NoHandle, Unencodable, Entered, NewClient,
               Return, VaultRefusesLogin, Answer, TokenExpires, RequestLost,
               TransportFails, AnswerUnreadable, AnswerOverflows, AnsweredRefusal,
               AnsweredLogin,
               AnsweredPush
    <2> QED
        BY <2>8, <2>9
<1> QED
    BY <1>1, <1>2, AlwaysIInv, PTL DEF Spec

\* A client that has lost its token and its credentials never gets a token again:
\* only a new one does (vault_push.cpp 148, and 161: the only place that sets one).
THEOREM StrandedUntilReplaced == Spec => StrandedForGood
<1>1. IInv /\ UnsentUnanswered /\ [Next]_vars => [Stranded => Stranded' \/ secrets']_vars
    <2> SUFFICES ASSUME IInv, UnsentUnanswered, Next, Stranded
                 PROVE  Stranded' \/ secrets'
        OBVIOUS
    <2>1. /\ token \notin valid /\ ~secrets
          /\ op \in Logins => ~op.sent
          /\ calls \in Nat /\ token \in Nat /\ token <= calls /\ valid \subseteq 1..calls
          /\ secrets \in BOOLEAN
        BY ClientBounds DEF Stranded, IInv, TypeOK
    <2>2. CASE Login
        <3>1. op' = [name |-> "Login", sent |-> secrets]
            BY <2>2 DEF Login
        <3> QED
            BY <2>1, <2>2, <3>1 DEF Login, Stranded, server
    <2>3. CASE PushCertWithoutToken \/ NoHandle \/ Unencodable \/ NewClient
        BY <2>1, <2>3, KindsOfCalls
           DEF PushCertWithoutToken, NoHandle, Unencodable, Entered, NewClient, Return,
               Stranded, server
    <2>4. ASSUME NEW h \in Hosts, PushCert(h)
          PROVE  Stranded' \/ secrets'
        <3>1. op' \in Pushes
            BY <2>4 DEF PushCert, Pushes
        <3> QED
            BY <2>1, <2>4, <3>1, KindsOfCalls DEF PushCert, Stranded, server
    <2>5. CASE VaultAuthenticates \/ VaultRefusesLogin
        BY <2>1, <2>5 DEF VaultAuthenticates, VaultRefusesLogin, Stranded, client, server
    <2>6. ASSUME NEW t \in valid, TokenExpires(t)
          PROVE  Stranded' \/ secrets'
        BY <2>1, <2>6 DEF TokenExpires, Stranded, client
    <2>7. ASSUME NEW r \in pending,
                 VaultStores(r) \/ VaultRefusesPush(r) \/ RequestLost(r)
          PROVE  Stranded' \/ secrets'
        BY <2>1, <2>7 DEF VaultStores, VaultRefusesPush, RequestLost, Stranded,
                          client, server
    <2>8. CASE TransportFails \/ AnswerUnreadable \/ AnswerOverflows \/ AnsweredRefusal
               \/ AnsweredPush
        BY <2>1, <2>8, KindsOfCalls
           DEF TransportFails, AnswerUnreadable, AnswerOverflows, AnsweredRefusal, AnsweredPush,
               Return,
               Stranded, server
    <2>9. CASE AnsweredLogin
        <3>1. op \in Logins /\ answer = "ok" /\ ~op.sent
            BY <2>1, <2>9 DEF AnsweredLogin
        <3> QED
            BY <3>1 DEF UnsentUnanswered
    <2> QED
        BY <2>2, <2>3, <2>4, <2>5, <2>6, <2>7, <2>8, <2>9 DEF Next
<1> QED
    BY <1>1, AlwaysIInv, AlwaysUnsentUnanswered, PTL DEF Spec, StrandedForGood

-----------------------------------------------------------------------------
(* The pipeline around it.                                                 *)

\* A push that may still reach Vault is the one that has not returned, or its caller
\* did not get true for it; it is no version yet.
Outstanding ==
    \A r \in pending :
        /\ r.call \in failed \/ (op \in Pushes /\ r.call = calls)
        /\ \A h \in Hosts : r.call \notin written[h]

\* A version is overtaken by older pushes only if those are among the failed.
Overtaken ==
    \A h \in Hosts : \A c \in written[h] : kv[h] >= c \/ kv[h] \in failed

\* What PushCert returned true for is a version.
AckedWritten == \A h \in Hosts : acked[h] = NoCall \/ acked[h] \in written[h]

\* The versions there have been are those that were written.
VersionsWritten ==
    \A h \in Hosts : \A i \in 1..Len(history[h]) : history[h][i] \in written[h]

\* A version after that of a later call is of a call that was not reported as done.
LateOnesFailed ==
    \A h \in Hosts : \A i, j \in 1..Len(history[h]) :
        i < j /\ history[h][j] < history[h][i] => history[h][j] \in failed

\* The invariant that every step preserves, given that of the client.
PInv ==
    /\ RecordTypeOK
    /\ Outstanding
    /\ Overtaken
    /\ AckedWritten
    /\ VersionsWritten
    /\ LateOnesFailed

-----------------------------------------------------------------------------
\* A step of the pipeline is one of the client and of Vault, or leaves them alone.
LEMMA PipelineIsClient == [PipelineNext]_pipelineVars => [Next]_vars
BY DEF PipelineNext, Publish, StopServing, Load, pipelineVars

\* So what is proved of the client holds with the versions and hosts around it.
LEMMA PipelineImplementsClient == PipelineSpec => Spec
<1>1. PipelineInit => Init
    BY DEF PipelineInit
<1> QED
    BY <1>1, PipelineIsClient, PTL DEF PipelineSpec, Spec

\* And its invariant with it.
LEMMA PipelineIInv == PipelineSpec => []IInv
BY PipelineImplementsClient, AlwaysIInv, PTL

\* The requirements hold before the first call.
LEMMA InitPInv == PipelineInit => PInv
<1> SUFFICES ASSUME PipelineInit
             PROVE  PInv
    OBVIOUS
<1> USE ClientBounds DEF NoCall
<1>1. RecordTypeOK
    BY DEF PipelineInit, RecordTypeOK
<1>2. Outstanding /\ Overtaken
    BY DEF PipelineInit, Init, Outstanding, Overtaken
<1>3. AckedWritten
    BY DEF PipelineInit, AckedWritten
<1>4. VersionsWritten /\ LateOnesFailed
    BY DEF PipelineInit, VersionsWritten, LateOnesFailed
<1> QED
    BY <1>1, <1>2, <1>3, <1>4 DEF PInv

\* A step that stores nothing makes no version.
LEMMA QuietKeepsHistory ==
    ASSUME PInv, Record, UNCHANGED written
    PROVE  UNCHANGED history
BY DEF PInv, RecordTypeOK, Record

\* The steps that neither store nor end a push: they keep the record as it is.
LEMMA UneventfulKeepsPInv ==
    ASSUME IInv, PInv, Record, UNCHANGED <<fetched, store>>, ~PushEnds,
           \A r \in pending' :
              \/ r \in pending /\ (op = Idle \/ (op' = op /\ calls' = calls))
              \/ /\ op' \in Pushes /\ r.call = calls'
                 /\ \A h \in Hosts : r.call \notin written[h]
    PROVE  PInv'
<1>1. UNCHANGED <<kv, written, history, acked, failed, serving, served>>
    BY QuietKeepsHistory DEF store, fetched, Record
<1>2. RecordTypeOK' /\ Overtaken' /\ AckedWritten' /\ VersionsWritten' /\ LateOnesFailed'
    BY <1>1 DEF PInv, RecordTypeOK, Overtaken, AckedWritten, VersionsWritten, LateOnesFailed
<1>3. Outstanding'
    BY <1>1, KindsOfCalls DEF PInv, Outstanding
<1> QED
    BY <1>2, <1>3 DEF PInv

\* The steps that end a push: what is not reported as done joins the failed.
LEMMA EndingKeepsPInv ==
    ASSUME IInv, PInv, Record, UNCHANGED <<fetched, store, pending>>,
           op \in Pushes, op' = Idle,
           returned' = "true" => answer = "ok"
    PROVE  PInv'
<1> USE ClientBounds
<1>1. UNCHANGED <<kv, written, history, pending, serving, served>>
    BY QuietKeepsHistory DEF store, fetched
<1>2. op # Idle /\ op.host \in Hosts
    BY KindsOfCalls DEF Pushes
<1>3. calls \in 1..MaxCalls
    BY <1>2 DEF IInv, TypeOK, Numbered, NoCall
<1>4. CASE returned' = "true"
    <2>1. failed' = failed /\ acked' = [acked EXCEPT ![op.host] = calls]
        BY <1>4 DEF Record, PushEnds
    <2>2. calls \in written[op.host]
        BY <1>4 DEF IInv, AnswerIsTrue
    <2>3. \A r \in pending : r.call # calls
        BY <1>4 DEF IInv, OnItsWay
    <2>4. RecordTypeOK'
        BY <1>1, <1>2, <1>3, <2>1 DEF PInv, RecordTypeOK
    <2>5. Outstanding' /\ Overtaken' /\ VersionsWritten' /\ LateOnesFailed'
        BY <1>1, <2>1, <2>3 DEF PInv, Outstanding, Overtaken, VersionsWritten, LateOnesFailed
    <2>6. AckedWritten'
        BY <1>1, <1>2, <2>1, <2>2 DEF PInv, RecordTypeOK, AckedWritten
    <2> QED
        BY <2>4, <2>5, <2>6 DEF PInv
<1>5. CASE returned' # "true"
    <2>1. failed' = failed \cup {calls} /\ acked' = acked
        BY <1>5 DEF Record, PushEnds
    <2>2. RecordTypeOK'
        BY <1>1, <1>3, <2>1 DEF PInv, RecordTypeOK
    <2>3. Outstanding' /\ Overtaken' /\ AckedWritten' /\ VersionsWritten' /\ LateOnesFailed'
        BY <1>1, <2>1 DEF PInv, Outstanding, Overtaken, AckedWritten, VersionsWritten, LateOnesFailed
    <2> QED
        BY <2>2, <2>3 DEF PInv
<1> QED
    BY <1>4, <1>5

\* What is written next to a host's history when Vault stores a push.
LEMMA StoringAppends ==
    ASSUME IInv, PInv, Record, NEW r \in pending, VaultStores(r)
    PROVE  /\ r.host \in Hosts /\ r.call \in 1..MaxCalls
           /\ kv' = [kv EXCEPT ![r.host] = r.call]
           /\ written' = [written EXCEPT ![r.host] = @ \cup {r.call}]
           /\ history' = [history EXCEPT ![r.host] = Append(@, r.call)]
           /\ UNCHANGED <<acked, failed>>
<1>1. /\ r.host \in Hosts /\ r.call \in 1..MaxCalls
      /\ kv' = [kv EXCEPT ![r.host] = r.call]
      /\ written' = [written EXCEPT ![r.host] = @ \cup {r.call}]
      /\ op' = op
    BY DEF VaultStores, IInv, TypeOK, Requests
<1>2. ~PushEnds
    BY <1>1, KindsOfCalls DEF PushEnds
<1>3. /\ written \in [Hosts -> SUBSET (1..MaxCalls)] /\ kv \in [Hosts -> 0..MaxCalls]
      /\ history \in [Hosts -> Seq(1..MaxCalls)]
    BY DEF IInv, TypeOK, PInv, RecordTypeOK
<1>4. r.call \notin written[r.host]
    BY <1>1 DEF PInv, Outstanding
<1>5. \A h \in Hosts : written'[h] = written[h] <=> h # r.host
    BY <1>1, <1>3, <1>4
<1>6. history' = [h \in Hosts |-> IF h # r.host THEN history[h]
                                  ELSE Append(history[h], kv'[h])]
    BY <1>5 DEF Record
<1>7. kv'[r.host] = r.call
    BY <1>1, <1>3
<1>8. history' = [history EXCEPT ![r.host] = Append(@, r.call)]
    BY <1>1, <1>3, <1>6, <1>7
<1>9. UNCHANGED <<acked, failed>>
    BY <1>2 DEF Record
<1> QED
    BY <1>1, <1>8, <1>9

\* Vault stores a push: it was reported as failed, or it is the newest.
LEMMA StoringKeepsPInv ==
    ASSUME IInv, IInv', PInv, Record, UNCHANGED fetched,
           NEW r \in pending, VaultStores(r)
    PROVE  PInv'
<1> USE ClientBounds DEF NoCall
<1> DEFINE g == r.host
<1>1. /\ g \in Hosts /\ r.call \in 1..MaxCalls
      /\ kv' = [kv EXCEPT ![g] = r.call]
      /\ written' = [written EXCEPT ![g] = @ \cup {r.call}]
      /\ history' = [history EXCEPT ![g] = Append(@, r.call)]
      /\ UNCHANGED <<acked, failed>>
    BY StoringAppends
<1>2. UNCHANGED <<serving, served, op, calls>> /\ pending' = pending \ {r}
    BY DEF fetched, VaultStores, client
<1>3. /\ written \in [Hosts -> SUBSET (1..MaxCalls)] /\ kv \in [Hosts -> 0..MaxCalls]
      /\ history \in [Hosts -> Seq(1..MaxCalls)]
      /\ acked \in [Hosts -> 0..MaxCalls]
    BY DEF IInv, TypeOK, PInv, RecordTypeOK
<1>4. /\ Len(history'[g]) = Len(history[g]) + 1 /\ Len(history[g]) \in Nat
      /\ \A h \in Hosts \ {g} : history'[h] = history[h]
    BY <1>1, <1>3
<1>5. RecordTypeOK'
    <2>1. history' \in [Hosts -> Seq(1..MaxCalls)]
        BY <1>1, <1>3
    <2>2. ASSUME NEW h \in Hosts
          PROVE  served'[h] \in 0..Len(history'[h])
        <3>1. served'[h] \in Nat /\ served'[h] <= Len(history[h]) /\ Len(history[h]) \in Nat
            BY <1>2, <1>3 DEF PInv, RecordTypeOK
        <3>2. Len(history[h]) <= Len(history'[h]) /\ Len(history'[h]) \in Nat
            BY <1>4, <2>1, <3>1
        <3> QED
            BY <3>1, <3>2
    <2> QED
        BY <1>1, <1>2, <2>1, <2>2 DEF PInv, RecordTypeOK
<1>6. Outstanding'
    <2> SUFFICES ASSUME NEW q \in pending'
                 PROVE  /\ q.call \in failed' \/ (op' \in Pushes /\ q.call = calls')
                        /\ \A h \in Hosts : q.call \notin written'[h]
        BY DEF Outstanding
    <2>1. q \in pending /\ q # r
        BY <1>2
    <2>2. q.call # r.call
        BY <2>1 DEF IInv, Numbered
    <2> QED
        BY <1>1, <1>2, <1>3, <2>1, <2>2 DEF PInv, Outstanding
<1>7. Overtaken'
    <2>1. r.call \in failed \/ r.call = calls
        BY DEF PInv, Outstanding
    <2>2. \A h \in Hosts : \A c \in written'[h] : c <= calls /\ c \in Nat
        BY <1>2 DEF IInv, TypeOK, Numbered
    <2>3. \A h \in Hosts \ {g} : kv'[h] = kv[h] /\ written'[h] = written[h]
        BY <1>1, <1>3
    <2>4. kv'[g] = r.call /\ r.call \in Nat
        BY <1>1, <1>3
    <2>5. \A c \in written'[g] : kv'[g] >= c \/ kv'[g] \in failed'
        BY <1>1, <2>1, <2>2, <2>4
    <2>6. \A h \in Hosts \ {g} : \A c \in written'[h] : kv'[h] >= c \/ kv'[h] \in failed'
        BY <1>1, <2>3 DEF PInv, Overtaken
    <2> QED
        BY <2>5, <2>6 DEF Overtaken
<1>8. AckedWritten'
    BY <1>1, <1>3 DEF PInv, AckedWritten
<1>9. ASSUME NEW i \in 1..(Len(history[g]) + 1)
      PROVE  \/ i = Len(history[g]) + 1 /\ history'[g][i] = r.call
             \/ i \in 1..Len(history[g]) /\ history'[g][i] = history[g][i]
    <2>1. history'[g] = Append(history[g], r.call) /\ history[g] \in Seq(1..MaxCalls)
        BY <1>1, <1>3
    <2> QED
        BY <1>1, <2>1
<1>10. VersionsWritten'
    <2> SUFFICES ASSUME NEW h \in Hosts, NEW i \in 1..Len(history'[h])
                 PROVE  history'[h][i] \in written'[h]
        BY DEF VersionsWritten
    <2>1. CASE h # g
        BY <1>1, <1>3, <1>4, <2>1 DEF PInv, VersionsWritten
    <2>2. CASE h = g
        <3>1. i \in 1..(Len(history[g]) + 1) /\ written'[g] = written[g] \cup {r.call}
            BY <1>1, <1>3, <1>4, <2>2
        <3> QED
            BY <1>9, <2>2, <3>1 DEF PInv, VersionsWritten
    <2> QED
        BY <2>1, <2>2
<1>11. LateOnesFailed'
    <2> SUFFICES ASSUME NEW h \in Hosts, NEW i \in 1..Len(history'[h]),
                        NEW j \in 1..Len(history'[h]), i < j,
                        history'[h][j] < history'[h][i]
                 PROVE  history'[h][j] \in failed
        BY <1>1 DEF LateOnesFailed
    <2>1. CASE h # g
        BY <1>4, <2>1 DEF PInv, LateOnesFailed
    <2>2. CASE h = g
        <3>1. i \in 1..(Len(history[g]) + 1) /\ j \in 1..(Len(history[g]) + 1)
            BY <1>4, <2>2
        <3>2. i \in 1..Len(history[g]) /\ history'[g][i] = history[g][i]
            BY <1>4, <1>9, <3>1
        <3>3. CASE j = Len(history[g]) + 1 /\ history'[g][j] = r.call
            <4>1. history[g][i] \in written[g] /\ history[g][i] <= calls
                <5>1. history[g][i] \in written[g]
                    BY <1>1, <3>2 DEF PInv, VersionsWritten
                <5> QED
                    BY <1>1, <5>1 DEF IInv, Numbered
            <4>2. r.call # calls
                <5>1. r.call < history[g][i] /\ history[g][i] \in Nat /\ calls \in Nat
                    <6>1. history[g] \in Seq(1..MaxCalls)
                        BY <1>1, <1>3
                    <6>2. history[g][i] \in 1..MaxCalls
                        BY <3>2, <6>1
                    <6>3. r.call < history[g][i]
                        BY <2>2, <3>2, <3>3
                    <6> QED
                        BY <6>2, <6>3 DEF IInv, TypeOK
                <5> QED
                    BY <1>1, <4>1, <5>1
            <4> QED
                BY <2>2, <3>3, <4>2 DEF PInv, Outstanding
        <3>4. CASE j \in 1..Len(history[g]) /\ history'[g][j] = history[g][j]
            BY <2>2, <3>2, <3>4 DEF PInv, LateOnesFailed
        <3> QED
            BY <1>9, <3>1, <3>3, <3>4
    <2> QED
        BY <2>1, <2>2
<1> QED
    BY <1>5, <1>6, <1>7, <1>8, <1>10, <1>11 DEF PInv

\* A step of the client, of the network or of Vault, with its record.
LEMMA PublishKeepsPInv ==
    ASSUME IInv, IInv', PInv, Publish
    PROVE  PInv'
<1> USE DEF NoCall
<1>1. Next /\ Record /\ UNCHANGED fetched
    BY DEF Publish
<1>2. op \in {Idle} \cup Logins \cup Pushes /\ (op = Idle => answer = "none")
    BY DEF IInv, TypeOK
<1>3. CASE Login \/ PushCertWithoutToken \/ NoHandle \/ Unencodable
    <2>1. op = Idle /\ UNCHANGED <<pending, store>>
        BY <1>3 DEF Login, PushCertWithoutToken, NoHandle, Unencodable, Entered, Call,
           server
    <2> QED
        BY <1>1, <2>1, KindsOfCalls, UneventfulKeepsPInv DEF PushEnds
<1>4. ASSUME NEW h \in Hosts, PushCert(h)
      PROVE  PInv'
    <2>1. /\ op = Idle /\ op' \in Pushes /\ UNCHANGED store
          /\ calls' = calls + 1 /\ calls \in Nat
          /\ pending' = pending \cup {[call |-> calls', host |-> h, token |-> token]}
        BY <1>4 DEF PushCert, Call, Pushes, server, IInv, TypeOK
    <2>2. \A g \in Hosts : calls' \notin written[g]
        BY <2>1 DEF IInv, TypeOK, Numbered
    <2> QED
        BY <1>1, <2>1, <2>2, KindsOfCalls, UneventfulKeepsPInv DEF PushEnds
<1>5. CASE VaultAuthenticates \/ VaultRefusesLogin \/ \E t \in valid : TokenExpires(t)
    <2>1. UNCHANGED <<op, calls, pending, store>>
        BY <1>5 DEF VaultAuthenticates, VaultRefusesLogin, TokenExpires, client, server
    <2> QED
        BY <1>1, <2>1, KindsOfCalls, UneventfulKeepsPInv DEF PushEnds
<1>6. ASSUME NEW r \in pending, VaultRefusesPush(r) \/ RequestLost(r)
      PROVE  PInv'
    <2>1. UNCHANGED <<op, calls, store>> /\ pending' = pending \ {r}
        BY <1>6 DEF VaultRefusesPush, RequestLost, client, server
    <2> QED
        BY <1>1, <2>1, KindsOfCalls, UneventfulKeepsPInv DEF PushEnds
<1>7. ASSUME NEW r \in pending, VaultStores(r)
      PROVE  PInv'
    BY <1>1, <1>7, StoringKeepsPInv
<1>8. CASE TransportFails \/ AnswerUnreadable \/ AnswerOverflows \/ AnsweredRefusal
           \/ AnsweredLogin \/ AnsweredPush \/ NewClient
    <2>1. /\ op' = Idle /\ UNCHANGED <<pending, store>>
          /\ op \in Pushes /\ returned' = "true" => answer = "ok"
        BY <1>8 DEF TransportFails, AnswerUnreadable, AnswerOverflows, AnsweredRefusal,
           AnsweredLogin, AnsweredPush, NewClient, Return, server
    <2>2. CASE op \in Pushes
        BY <1>1, <2>1, <2>2, EndingKeepsPInv
    <2>3. CASE op = Idle
        BY <1>1, <2>1, <2>3, KindsOfCalls, UneventfulKeepsPInv DEF PushEnds
    <2>4. CASE op \in Logins
        <3>1. op \notin Pushes
            BY <2>4, KindsOfCalls
        <3>2. UNCHANGED <<kv, written, history, acked, failed, serving, served, pending>>
            BY <1>1, <2>1, <3>1, QuietKeepsHistory DEF store, fetched, Record, PushEnds
        <3> QED
            BY <3>1, <3>2 DEF PInv, RecordTypeOK, Outstanding, Overtaken, AckedWritten,
               VersionsWritten, LateOnesFailed
    <2> QED
        BY <1>2, <2>2, <2>3, <2>4
<1> QED
    BY <1>1, <1>3, <1>4, <1>5, <1>6, <1>7, <1>8 DEF Next

\* The steps of a host's fetcher and of its NGINX.
LEMMA FetchingKeepsPInv ==
    ASSUME PInv, NEW h \in Hosts,
           StopServing(h) \/ \E v \in 1..Len(history[h]) : Load(h, v)
    PROVE  PInv'
<1>1. UNCHANGED <<pending, op, calls, kv, written, history, acked, failed>>
    BY DEF StopServing, Load, vars, client, server, store, outcome
<1>2. RecordTypeOK'
    <2>0. /\ serving \in [Hosts -> BOOLEAN] /\ served \in [Hosts -> Nat]
          /\ \A g \in Hosts : served[g] \in 0..Len(history[g]) /\ Len(history[g]) \in Nat
        BY DEF PInv, RecordTypeOK
    <2>1. serving' \in [Hosts -> BOOLEAN]
        BY <2>0 DEF StopServing, Load
    <2>2. /\ served' \in [Hosts -> Nat]
          /\ \A g \in Hosts : served'[g] \in 0..Len(history[g])
        <3>1. CASE StopServing(h)
            BY <2>0, <3>1 DEF StopServing
        <3>2. ASSUME NEW v \in 1..Len(history[h]), Load(h, v)
              PROVE  /\ served' \in [Hosts -> Nat]
                     /\ \A g \in Hosts : served'[g] \in 0..Len(history[g])
            <4>1. v \in Nat /\ v \in 0..Len(history[h])
                BY <2>0
            <4>2. served' = [served EXCEPT ![h] = v]
                BY <3>2 DEF Load
            <4> QED
                BY <2>0, <4>1, <4>2
        <3> QED
            BY <3>1, <3>2
    <2> QED
        BY <1>1, <2>1, <2>2 DEF PInv, RecordTypeOK
<1> QED
    BY <1>1, <1>2 DEF PInv, Outstanding, Overtaken, AckedWritten, VersionsWritten, LateOnesFailed

\* Every step, and every stutter, preserves the requirements.
LEMMA NextPInv == IInv /\ IInv' /\ PInv /\ [PipelineNext]_pipelineVars => PInv'
<1> SUFFICES ASSUME IInv, IInv', PInv, [PipelineNext]_pipelineVars
             PROVE  PInv'
    OBVIOUS
<1>1. CASE UNCHANGED pipelineVars
    BY <1>1 DEF pipelineVars, vars, client, server, store, outcome, fetched, PInv,
       RecordTypeOK, Outstanding, Overtaken, AckedWritten, VersionsWritten, LateOnesFailed
<1> QED
    BY <1>1, PublishKeepsPInv, FetchingKeepsPInv DEF PipelineNext

\* The requirements hold throughout.
LEMMA AlwaysPInv == PipelineSpec => []PInv
BY InitPInv, NextPInv, PipelineIInv, PTL DEF PipelineSpec

-----------------------------------------------------------------------------
\* All variables of the client keep their types with the versions and hosts around it,
\* and so does the record; a version that was loaded exists.
THEOREM PipelineTypes == PipelineSpec => []PipelineTypeOK
<1>1. IInv /\ PInv => PipelineTypeOK
    BY DEF IInv, PInv, PipelineTypeOK
<1> QED
    BY <1>1, PipelineIInv, AlwaysPInv, PTL

\* Between what PushCert reports and what is current in Vault stand only pushes that
\* were reported as failed (vault_push.cpp 96-107: the request outlives its caller).
THEOREM OvertakersWereReported == PipelineSpec => []CurrentUnlessReported
<1>1. IInv /\ PInv => CurrentUnlessReported
    <2> SUFFICES ASSUME IInv, PInv, NEW h \in Hosts
                 PROVE  kv[h] >= acked[h] \/ kv[h] \in failed
        BY DEF CurrentUnlessReported
    <2>1. acked[h] = NoCall \/ acked[h] \in written[h]
        BY DEF PInv, AckedWritten
    <2> QED
        BY <2>1 DEF IInv, TypeOK, PInv, Overtaken, NoCall
<1> QED
    BY <1>1, PipelineIInv, AlwaysPInv, PTL

\* NGINX goes back to an older certificate only with a push whose caller did not get
\* true for it (vault_push.cpp 96-107: the request outlives its caller).
THEOREM RollbacksWereReported == PipelineSpec => RollbackWasReported
<1> USE ClientBounds DEF NoCall
<1>1. IInv /\ PInv /\ [PipelineNext]_pipelineVars =>
          [\A h \in Hosts :
              Certificate(h)' < Certificate(h) => Certificate(h)' \in failed]_pipelineVars
    <2> SUFFICES ASSUME IInv, PInv, PipelineNext, NEW h \in Hosts,
                        Certificate(h)' < Certificate(h)
                 PROVE  Certificate(h)' \in failed
        OBVIOUS
    <2>0. /\ history \in [Hosts -> Seq(1..MaxCalls)] /\ served \in [Hosts -> Nat]
          /\ served[h] \in 0..Len(history[h]) /\ Len(history[h]) \in Nat
          /\ \A i \in 1..Len(history[h]) : history[h][i] \in 1..MaxCalls
        BY DEF PInv, RecordTypeOK
    <2>1. ASSUME Publish
          PROVE  Certificate(h)' = Certificate(h)
        <3>1. served' = served
            BY <2>1 DEF Publish, fetched
        <3>2. history'[h] = history[h] \/ history'[h] = Append(history[h], kv'[h])
            BY <2>1 DEF Publish, Record
        <3>3. served[h] # 0 => history'[h][served[h]] = history[h][served[h]]
            <4>1. history[h] \in Seq(1..MaxCalls)
                BY <2>0
            <4>2. served[h] # 0 => served[h] \in 1..Len(history[h])
                BY <2>0
            <4> QED
                BY <3>2, <4>1, <4>2
        <3> QED
            BY <3>1, <3>3 DEF Certificate
    <2>2. ASSUME NEW g \in Hosts, StopServing(g)
          PROVE  Certificate(h)' = Certificate(h)
        BY <2>2 DEF StopServing, outcome, Certificate
    <2>3. ASSUME NEW g \in Hosts, NEW v \in 1..Len(history[g]), Load(g, v)
          PROVE  Certificate(h)' \in failed
        <3>1. history' = history /\ served' = [served EXCEPT ![g] = v]
            BY <2>3 DEF Load, outcome
        <3>2. g = h
            <4>1. g # h => served'[h] = served[h]
                BY <2>0, <3>1
            <4>2. g # h => Certificate(h)' = Certificate(h)
                BY <3>1, <4>1 DEF Certificate
            <4>3. Certificate(h) \in Nat
                BY <2>0 DEF Certificate
            <4> QED
                BY <4>2, <4>3
        <3>3. served'[h] = v /\ v \in 1..Len(history[h]) /\ v >= served[h]
            BY <2>0, <2>3, <3>1, <3>2 DEF Load
        <3>4. Certificate(h)' = history[h][v] /\ history[h][v] \in 1..MaxCalls
            BY <2>0, <3>1, <3>3 DEF Certificate
        <3>5. served[h] # 0 /\ Certificate(h) = history[h][served[h]]
            BY <3>4 DEF Certificate
        <3>6. served[h] \in 1..Len(history[h]) /\ served[h] < v
            BY <2>0, <3>3, <3>4, <3>5
        <3>7. history[h][v] < history[h][served[h]]
            BY <3>4, <3>5
        <3> QED
            BY <3>3, <3>4, <3>6, <3>7 DEF PInv, LateOnesFailed
    <2>4. Certificate(h) \in Nat
        BY <2>0 DEF Certificate
    <2> QED
        BY <2>1, <2>2, <2>3, <2>4 DEF PipelineNext
<1> QED
    BY <1>1, PipelineIInv, AlwaysPInv, PTL DEF PipelineSpec, RollbackWasReported
=============================================================================
