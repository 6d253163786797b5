------------------------ MODULE WalletSessionProofs ------------------------
(***************************************************************************)
(* For any number of sessions, outputs and plans: a session implements     *)
(* Payments, whatever happens to the calls; the node's locks are those of  *)
(* payments that are about to unlock them or that failed; what is sent     *)
(* could be spent, and only whole answers lead on.  The first invariant    *)
(* says where a call to sendrawtx can be and what a reply to it can mean,  *)
(* the second what a call for a lock can do, the third what was chosen.    *)
(***************************************************************************)
EXTENDS WalletSession, TLAPS

(* What is needed of one payment.                                           *)
Sending(p) == Asked(p, "sendrawtx")
Made(p) == \E id \in Id : spentBy[id] = p

(* A call is waited for only in a step that calls, one at a time, and what  *)
(* comes back is read before the next call.                                 *)
WaitsInStep(p) ==
  /\ waiting[p] => pc[p] \in Steps
  /\ ~waiting[p] => bytes[p] = {}
  /\ (~waiting[p] /\ pc[p] \notin {"thrown", "unsure"}) => requests[p] = {}
  /\ \A r1, r2 \in requests[p] : r1 = r2

(* A transaction is on its way only for a payment that was not made.        *)
SendsOnce(p) ==
  Sending(p) => ~Made(p) /\ (pc[p] = "unsure" \/ (pc[p] = "send" /\ waiting[p]))

(* A payment is made in no other step.                                      *)
MadeWhenSent(p) ==
  Made(p) => pc[p] \in {"made", "unsure"} \/ (pc[p] = "send" /\ waiting[p])

(* A call that is still under way was lost, and the reply tells the truth.  *)
RepliesAreTrue(p) ==
  /\ \A b \in bytes[p] : requests[p] # {} => rpcResult(b).end = "thrown"
  /\ pc[p] = "send" =>
       /\ \A b \in bytes[p] : rpcResult(b).end = "true" => Made(p)
       /\ \A b \in bytes[p] : rpcResult(b).end = "false" => ~Made(p)
       /\ \A r \in requests[p] : r.method = "sendrawtx"

ToldTruly(p) == pc[p] = "made" => Made(p)

Good(p) ==
  WaitsInStep(p) /\ SendsOnce(p) /\ MadeWhenSent(p) /\ RepliesAreTrue(p) /\ ToldTruly(p)

Functions ==
  /\ DOMAIN pc = Payment
  /\ DOMAIN waiting = Payment
  /\ DOMAIN requests = Payment
  /\ DOMAIN bytes = Payment
  /\ DOMAIN spentBy = Id
  /\ pc = [p \in Payment |-> pc[p]]
  /\ waiting = [p \in Payment |-> waiting[p]]
  /\ requests = [p \in Payment |-> requests[p]]
  /\ bytes = [p \in Payment |-> bytes[p]]
  /\ spentBy = [id \in Id |-> spentBy[id]]
  /\ waiting \in [Payment -> BOOLEAN]

IInv == Functions /\ \A p \in Payment : Good(p)

-----------------------------------------------------------------------------
(* What the caller of rpcResult is told of the replies the node can give.   *)
LEMMA NoBytesThrow == rpcResult(NoBytes).end = "thrown"
BY DEF rpcResult, CallRPC, NoBytes, Bytes, ReadHTTPMessage, ReadHTTPStatus, Nothing, Thrown,
       Told, Unusable, NoStatus, HTTP_INTERNAL_SERVER_ERROR, HTTP_UNAUTHORIZED, HTTP_BAD_REQUEST,
       HTTP_NOT_FOUND

LEMMA CutThrows == ASSUME NEW status, NEW body PROVE rpcResult(Cut(status, body)).end = "thrown"
<1>1. Cut(status, body).arrived # Cut(status, body).length
  BY DEF Cut, Bytes, Size
<1>2. ReadHTTPMessage(Cut(status, body)) = Nothing
  BY <1>1 DEF ReadHTTPMessage
<1>3. CallRPC(Cut(status, body)) = Thrown
  BY <1>2 DEF CallRPC, Nothing
<1> QED
  BY <1>3 DEF rpcResult, Thrown

LEMMA ResultIsTrue == ASSUME NEW value PROVE rpcResult(Whole(HTTP_OK, Result(value))).end = "true"
<1> DEFINE b == Whole(HTTP_OK, Result(value))
<1>1. ReadHTTPMessage(b) = Result(value) /\ ReadHTTPStatus(b) = 200
  BY DEF Whole, Bytes, Size, ReadHTTPMessage, ReadHTTPStatus, HTTP_OK, NoStatus
<1>2. CallRPC(b) = Told("returned", Result(value))
  BY <1>1 DEF CallRPC, Unusable, Result, HTTP_UNAUTHORIZED
<1> QED
  BY <1>2 DEF rpcResult, result, Told, ErrorOf, Result, NoError

LEMMA ErrorIsFalse ==
  ASSUME NEW code \in {WarmUp, Invalid, MissingInputs}
  PROVE  rpcResult(Whole(HTTP_INTERNAL_SERVER_ERROR, Error(code))).end = "false"
<1> DEFINE b == Whole(HTTP_INTERNAL_SERVER_ERROR, Error(code))
<1>1. ReadHTTPMessage(b) = Error(code) /\ ReadHTTPStatus(b) = 500
  BY DEF Whole, Bytes, Size, ReadHTTPMessage, ReadHTTPStatus, HTTP_INTERNAL_SERVER_ERROR, NoStatus
<1>2. CallRPC(b) = Told("returned", Error(code))
  BY <1>1 DEF CallRPC, Unusable, Error, HTTP_UNAUTHORIZED, HTTP_INTERNAL_SERVER_ERROR
<1> QED
  BY <1>2 DEF rpcResult, result, Told, ErrorOf, Error, WarmUp, Invalid, MissingInputs

LEMMA NoAnswerThrows ==
  ASSUME NEW p, NEW b \in NoAnswer(p)
  PROVE  rpcResult(b).end = "thrown"
<1>1. CASE b = NoBytes
  BY <1>1, NoBytesThrow
<1>2. CASE b \in {Whole(HTTP_UNAUTHORIZED, NotJson), Whole(503, NotJson), Whole(HTTP_OK, NotJson)}
  <2>1. ReadHTTPMessage(b) = NotJson
    BY <1>2 DEF ReadHTTPMessage, Whole, Bytes, Size
  <2> QED
    BY <2>1 DEF rpcResult, CallRPC, NotJson, Thrown
<1>3. CASE b = Whole(HTTP_OK, EmptyObject)
  <2>1. ReadHTTPMessage(b) = EmptyObject
    BY <1>3 DEF ReadHTTPMessage, Whole, Bytes, Size
  <2>2. CallRPC(b) = Thrown
    BY <2>1 DEF CallRPC, EmptyObject
  <2> QED
    BY <2>2 DEF rpcResult, Thrown
<1> QED
  BY <1>1, <1>2, <1>3 DEF NoAnswer

-----------------------------------------------------------------------------
(* The part that does nothing in a step keeps its share of the invariant.   *)
LEMMA OthersAreGood ==
  ASSUME NEW q, Good(q), Made(q)' <=> Made(q), pc'[q] = pc[q], waiting'[q] = waiting[q],
         requests'[q] = requests[q], bytes'[q] = bytes[q]
  PROVE  Good(q)'
BY DEF Good, WaitsInStep, SendsOnce, MadeWhenSent, RepliesAreTrue, ToldTruly, Sending, Asked, Made

(* A step of one part that changes only its own variables keeps them        *)
(* functions, and all the parts good when it keeps this one good.           *)
LEMMA StepOfOne ==
  ASSUME IInv, NEW p \in Payment,
         NEW step, NEW wait \in BOOLEAN, NEW asked, NEW reply,
         pc' = [pc EXCEPT ![p] = step],
         waiting' = [waiting EXCEPT ![p] = wait],
         requests' = [requests EXCEPT ![p] = asked],
         bytes' = [bytes EXCEPT ![p] = reply],
         DOMAIN spentBy' = Id, spentBy' = [id \in Id |-> spentBy'[id]],
         \A q \in Payment \ {p} : Made(q)' <=> Made(q),
         Good(p)'
  PROVE  IInv'
<1>1. Functions'
  BY DEF IInv, Functions
<1>2. ASSUME NEW q \in Payment PROVE Good(q)'
  <2>1. CASE q = p
    BY <2>1
  <2>2. CASE q # p
    <3>1. Good(q) /\ pc'[q] = pc[q] /\ waiting'[q] = waiting[q] /\ requests'[q] = requests[q]
            /\ bytes'[q] = bytes[q]
      BY <2>2 DEF IInv, Functions
    <3>2. Made(q)' <=> Made(q)
      BY <2>2
    <3> QED
      BY <3>1, <3>2, OthersAreGood
  <2> QED
    BY <2>1, <2>2
<1> QED
  BY <1>1, <1>2 DEF IInv

(* Nothing but a payment changes whether one was made.                      *)
LEMMA MadeStays == ASSUME UNCHANGED spentBy, NEW q PROVE Made(q)' <=> Made(q)
BY DEF Made

(* A part that reads an answer before it has sent anything.                 *)
LEMMA AnsweredIsGood ==
  ASSUME IInv, NEW p \in Payment, NEW at \in Steps \ {"send"}, NEW end, NEW step,
         Answered(p, at, end), Goto(p, step),
         step = "thrown" \/ (end # "thrown" /\ step \in
           {"list", "lock", "unlock", "which", "build", "terminated"})
  PROVE  IInv'
<1> USE DEF Answered, Goto, node
<1>1. pc[p] = at /\ waiting[p] /\ Good(p)
  BY DEF IInv
<1>2. pc'[p] = step /\ waiting'[p] = FALSE /\ bytes'[p] = {} /\ requests'[p] = requests[p]
  BY DEF IInv, Functions
<1>3. ~Made(p) /\ ~Sending(p)
  BY <1>1 DEF Good, SendsOnce, MadeWhenSent, Steps
<1>4. ~Made(p)' /\ ~Sending(p)'
  BY <1>2, <1>3 DEF Made, Sending, Asked
<1>5. step # "thrown" => requests[p] = {}
  BY <1>1 DEF Good, RepliesAreTrue
<1>6. Good(p)'
  BY <1>1, <1>2, <1>4, <1>5 DEF Good, WaitsInStep, SendsOnce, MadeWhenSent, RepliesAreTrue, ToldTruly
<1>7. requests' = [requests EXCEPT ![p] = requests[p]]
  BY DEF IInv, Functions
<1>8. \A q \in Payment \ {p} : Made(q)' <=> Made(q)
  BY MadeStays
<1>9. DOMAIN spentBy' = Id /\ spentBy' = [id \in Id |-> spentBy'[id]]
  BY DEF IInv, Functions
<1> HIDE DEF Answered, Goto
<1>10. waiting' = [waiting EXCEPT ![p] = FALSE] /\ bytes' = [bytes EXCEPT ![p] = {}]
  BY DEF Answered
<1>11. pc' = [pc EXCEPT ![p] = step]
  BY DEF Goto
<1> QED
  BY <1>6, <1>7, <1>8, <1>9, <1>10, <1>11, StepOfOne

-----------------------------------------------------------------------------
(* The other steps of a session.                                            *)
LEMMA BeginIsGood == ASSUME IInv, NEW p \in Payment, Begin(p) PROVE IInv'
<1> USE DEF Begin, Goto, wire, node, chosen
<1>1. pc[p] = "idle" /\ Good(p)
  BY DEF IInv
<1>2. pc'[p] = "params" /\ UNCHANGED <<waiting, requests, bytes, spentBy>>
  BY DEF IInv, Functions
<1>3. ~Made(p) /\ ~Sending(p) /\ ~waiting[p] /\ bytes[p] = {} /\ requests[p] = {}
  BY <1>1 DEF Good, SendsOnce, MadeWhenSent, WaitsInStep, Steps
<1>4. ~Made(p)' /\ ~Sending(p)'
  BY <1>2, <1>3 DEF Made, Sending, Asked
<1>5. Good(p)'
  BY <1>2, <1>3, <1>4 DEF Good, WaitsInStep, SendsOnce, MadeWhenSent, RepliesAreTrue, ToldTruly
<1>6. \A q \in Payment \ {p} : Made(q)' <=> Made(q)
  BY MadeStays
<1>7. /\ waiting' = [waiting EXCEPT ![p] = FALSE]
      /\ requests' = [requests EXCEPT ![p] = requests[p]]
      /\ bytes' = [bytes EXCEPT ![p] = bytes[p]]
      /\ DOMAIN spentBy' = Id /\ spentBy' = [id \in Id |-> spentBy'[id]]
  BY <1>3 DEF IInv, Functions
<1> QED
  BY <1>5, <1>6, <1>7, StepOfOne

LEMMA CallIsGood == ASSUME IInv, NEW p \in Payment, Call(p) PROVE IInv'
<1> USE DEF Call, node, chosen
<1>1. pc[p] \in Steps /\ ~waiting[p] /\ Good(p)
  BY DEF IInv
<1>2. /\ pc'[p] = pc[p] /\ waiting'[p] = TRUE /\ requests'[p] = {RequestOf(p)}
      /\ bytes'[p] = bytes[p] /\ UNCHANGED spentBy
  BY DEF IInv, Functions
<1>3. ~Made(p) /\ bytes[p] = {}
  BY <1>1 DEF Good, MadeWhenSent, WaitsInStep, Steps
<1>4. ~Made(p)'
  BY <1>2, <1>3 DEF Made
<1>5. RequestOf(p).method = "sendrawtx" <=> pc[p] = "send"
  BY <1>1 DEF RequestOf, Steps, getblockchainparams, listunspentOf, listunspent, lockunspent,
              liststreams, listassets, sendrawtx, Request
<1>6. Good(p)'
  BY <1>1, <1>2, <1>3, <1>4, <1>5
     DEF Good, WaitsInStep, SendsOnce, MadeWhenSent, RepliesAreTrue, ToldTruly, Sending, Asked, Steps
<1>7. \A q \in Payment \ {p} : Made(q)' <=> Made(q)
  BY MadeStays
<1>8. /\ pc' = [pc EXCEPT ![p] = pc[p]]
      /\ bytes' = [bytes EXCEPT ![p] = bytes[p]]
      /\ DOMAIN spentBy' = Id /\ spentBy' = [id \in Id |-> spentBy'[id]]
  BY DEF IInv, Functions
<1> QED
  BY <1>6, <1>7, <1>8, StepOfOne

LEMMA CannotConnectIsGood == ASSUME IInv, NEW p \in Payment, CannotConnect(p) PROVE IInv'
<1> USE DEF CannotConnect, node, chosen
<1>1. pc[p] \in Steps /\ ~waiting[p] /\ Good(p)
  BY DEF IInv
<1>2. /\ pc'[p] = pc[p] /\ waiting'[p] = TRUE /\ bytes'[p] = {NoBytes}
      /\ requests'[p] = requests[p] /\ UNCHANGED spentBy
  BY DEF IInv, Functions
<1>3. ~Made(p) /\ requests[p] = {}
  BY <1>1 DEF Good, MadeWhenSent, WaitsInStep, Steps
<1>4. ~Made(p)'
  BY <1>2, <1>3 DEF Made
<1>5. Good(p)'
  BY <1>1, <1>2, <1>3, <1>4, NoBytesThrow
     DEF Good, WaitsInStep, SendsOnce, MadeWhenSent, RepliesAreTrue, ToldTruly, Sending, Asked, Steps
<1>6. \A q \in Payment \ {p} : Made(q)' <=> Made(q)
  BY MadeStays
<1>7. /\ pc' = [pc EXCEPT ![p] = pc[p]]
      /\ requests' = [requests EXCEPT ![p] = requests[p]]
      /\ DOMAIN spentBy' = Id /\ spentBy' = [id \in Id |-> spentBy'[id]]
  BY DEF IInv, Functions
<1> QED
  BY <1>5, <1>6, <1>7, StepOfOne

LEMMA LoseConnectionIsGood == ASSUME IInv, NEW p \in Payment, LoseConnection(p) PROVE IInv'
<1> USE DEF LoseConnection, node, chosen
<1>1. waiting[p] /\ bytes[p] = {} /\ Good(p)
  BY DEF IInv
<1>2. /\ pc'[p] = pc[p] /\ waiting'[p] = TRUE /\ bytes'[p] = {NoBytes}
      /\ requests'[p] = requests[p] /\ UNCHANGED spentBy
  BY DEF IInv, Functions
<1>3. Made(p)' <=> Made(p)
  BY <1>2, MadeStays
<1>4. Good(p)'
  BY <1>1, <1>2, <1>3, NoBytesThrow
     DEF Good, WaitsInStep, SendsOnce, MadeWhenSent, RepliesAreTrue, ToldTruly, Sending, Asked
<1>5. \A q \in Payment \ {p} : Made(q)' <=> Made(q)
  BY MadeStays
<1>6. /\ pc' = [pc EXCEPT ![p] = pc[p]]
      /\ waiting' = [waiting EXCEPT ![p] = TRUE]
      /\ requests' = [requests EXCEPT ![p] = requests[p]]
      /\ DOMAIN spentBy' = Id /\ spentBy' = [id \in Id |-> spentBy'[id]]
  BY <1>1 DEF IInv, Functions
<1> QED
  BY <1>4, <1>5, <1>6, StepOfOne

LEMMA BuildIsGood == ASSUME IInv, NEW p \in Payment, Build(p) PROVE IInv'
<1> USE DEF Build, Goto, node, wire
<1>1. PICK step \in {"send", "crashed"} : pc[p] = "build" /\ pc' = [pc EXCEPT ![p] = step]
  OBVIOUS
<1>2. pc'[p] = step /\ UNCHANGED <<waiting, requests, bytes, spentBy>> /\ Good(p)
  BY <1>1 DEF IInv, Functions
<1>3. ~Made(p) /\ ~waiting[p] /\ bytes[p] = {} /\ requests[p] = {}
  BY <1>1, <1>2 DEF Good, SendsOnce, MadeWhenSent, WaitsInStep, Steps
<1>4. ~Made(p)' /\ ~Sending(p)'
  BY <1>2, <1>3 DEF Made, Sending, Asked
<1>5. Good(p)'
  BY <1>2, <1>3, <1>4 DEF Good, WaitsInStep, SendsOnce, MadeWhenSent, RepliesAreTrue, ToldTruly
<1>6. \A q \in Payment \ {p} : Made(q)' <=> Made(q)
  BY MadeStays
<1>7. /\ waiting' = [waiting EXCEPT ![p] = FALSE]
      /\ requests' = [requests EXCEPT ![p] = requests[p]]
      /\ bytes' = [bytes EXCEPT ![p] = bytes[p]]
      /\ DOMAIN spentBy' = Id /\ spentBy' = [id \in Id |-> spentBy'[id]]
  BY ZenonT(30), <1>2, <1>3 DEF IInv, Functions
<1> QED
  BY <1>1, <1>5, <1>6, <1>7, StepOfOne

LEMMA SentIsGood == ASSUME IInv, NEW p \in Payment, Sent(p) PROVE IInv'
<1>1. PICK end, step :
        /\ Answered(p, "send", end) /\ Goto(p, step)
        /\ <<end, step>> \in {<<"true", "made">>, <<"false", "refused">>, <<"thrown", "unsure">>}
  BY DEF Sent
<1>2. pc[p] = "send" /\ waiting[p] /\ Good(p)
  BY <1>1 DEF IInv, Answered
<1>3. /\ pc'[p] = step /\ waiting'[p] = FALSE /\ bytes'[p] = {} /\ requests'[p] = requests[p]
      /\ UNCHANGED spentBy
  BY <1>1 DEF IInv, Functions, Answered, Goto, node
<1>4. PICK b \in bytes[p] : rpcResult(b).end = end
  BY <1>1 DEF Answered
<1>5. /\ end = "true" => Made(p)
      /\ end = "false" => ~Made(p)
      /\ end # "thrown" => requests[p] = {}
  BY <1>2, <1>4 DEF Good, RepliesAreTrue
<1>6. Made(p)' <=> Made(p)
  BY <1>3, MadeStays
<1>7. Good(p)'
  <2>1. CASE end = "thrown" /\ step = "unsure"
    BY <1>2, <1>3, <1>6, <2>1
       DEF Good, WaitsInStep, SendsOnce, MadeWhenSent, RepliesAreTrue, ToldTruly, Sending, Asked
  <2>2. CASE end = "true" /\ step = "made"
    BY <1>3, <1>5, <1>6, <2>2
       DEF Good, WaitsInStep, SendsOnce, MadeWhenSent, RepliesAreTrue, ToldTruly, Sending, Asked
  <2>3. CASE end = "false" /\ step = "refused"
    BY <1>3, <1>5, <1>6, <2>3
       DEF Good, WaitsInStep, SendsOnce, MadeWhenSent, RepliesAreTrue, ToldTruly, Sending, Asked
  <2> QED
    BY <1>1, <2>1, <2>2, <2>3
<1>8. \A q \in Payment \ {p} : Made(q)' <=> Made(q)
  BY <1>3, MadeStays
<1>9. /\ pc' = [pc EXCEPT ![p] = step]
      /\ waiting' = [waiting EXCEPT ![p] = FALSE]
      /\ bytes' = [bytes EXCEPT ![p] = {}]
      /\ requests' = [requests EXCEPT ![p] = requests[p]]
      /\ DOMAIN spentBy' = Id /\ spentBy' = [id \in Id |-> spentBy'[id]]
  BY <1>1 DEF IInv, Functions, Answered, Goto, node
<1> QED
  BY <1>7, <1>8, <1>9, StepOfOne

-----------------------------------------------------------------------------
(* The node.  A call is answered once, and only if it is still waited for.  *)
LEMMA AnswerIsGood ==
  ASSUME IInv, NEW p \in Payment, requests[p] # {}, NEW b,
         requests' = [requests EXCEPT ![p] = {}],
         bytes' = IF Live(p) THEN [bytes EXCEPT ![p] = {b}] ELSE bytes,
         pc' = pc, waiting' = waiting,
         DOMAIN spentBy' = Id, spentBy' = [id \in Id |-> spentBy'[id]],
         \A q \in Payment \ {p} : Made(q)' <=> Made(q),
         Made(p) => Made(p)', Made(p)' => Made(p) \/ Sending(p),
         Sending(p) => (rpcResult(b).end = "true" => Made(p)'),
         Sending(p) => (rpcResult(b).end = "false" => ~Made(p)')
  PROVE  IInv'
<1>1. Good(p) /\ waiting[p] \in BOOLEAN
  BY DEF IInv, Functions
<1>2. /\ pc'[p] = pc[p] /\ waiting'[p] = waiting[p] /\ requests'[p] = {}
      /\ bytes'[p] = IF Live(p) THEN {b} ELSE bytes[p]
  BY DEF IInv, Functions
<1>3. pc[p] = "send" => Sending(p)
  BY <1>1 DEF Good, RepliesAreTrue, Sending, Asked
<1>4. WaitsInStep(p)'
  BY <1>1, <1>2 DEF Good, WaitsInStep, Live
<1>5. SendsOnce(p)'
  BY <1>2 DEF SendsOnce, Sending, Asked
<1>6. MadeWhenSent(p)'
  BY <1>1, <1>2 DEF Good, MadeWhenSent, SendsOnce
<1>7. RepliesAreTrue(p)'
  <2>1. CASE Live(p)
    BY <1>2, <1>3, <2>1 DEF RepliesAreTrue
  <2>2. CASE ~Live(p)
    BY <1>1, <1>2, <2>2 DEF Good, RepliesAreTrue
  <2> QED
    BY <2>1, <2>2
<1>8. ToldTruly(p)'
  BY <1>1, <1>2 DEF Good, ToldTruly
<1>9. Good(p)'
  BY <1>4, <1>5, <1>6, <1>7, <1>8 DEF Good
<1>10. PICK reply : bytes' = [bytes EXCEPT ![p] = reply]
  <2>1. CASE Live(p)
    BY <2>1
  <2>2. CASE ~Live(p)
    <3>1. bytes' = [bytes EXCEPT ![p] = bytes[p]]
      BY <2>2 DEF IInv, Functions
    <3> QED
      BY <3>1
  <2> QED
    BY <2>1, <2>2
<1>11. pc' = [pc EXCEPT ![p] = pc[p]] /\ waiting' = [waiting EXCEPT ![p] = waiting[p]]
  BY DEF IInv, Functions
<1> QED
  BY <1>1, <1>9, <1>10, <1>11, StepOfOne

(* A reply comes whole or cut: the caller is told what it means, or throws. *)
LEMMA ReplyComes ==
  ASSUME NEW p \in Payment, NEW status, NEW body, Reply(p, status, body)
  PROVE  /\ requests' = [requests EXCEPT ![p] = {}]
         /\ UNCHANGED <<pc, waiting>>
         /\ \E b : /\ bytes' = IF Live(p) THEN [bytes EXCEPT ![p] = {b}] ELSE bytes
                  /\ rpcResult(b).end \in {rpcResult(Whole(status, body)).end, "thrown"}
<1>1. CASE Live(p)
  BY <1>1, CutThrows DEF Reply
<1>2. CASE ~Live(p)
  BY <1>2 DEF Reply
<1> QED
  BY <1>1, <1>2 DEF Reply

(* A reply to a call that spends nothing.                                   *)
LEMMA OtherReplyIsGood ==
  ASSUME IInv, NEW p \in Payment, requests[p] # {}, NEW status, NEW body,
         Reply(p, status, body), UNCHANGED spentBy,
         Sending(p) => rpcResult(Whole(status, body)).end # "true"
  PROVE  IInv'
<1>1. PICK b : /\ bytes' = IF Live(p) THEN [bytes EXCEPT ![p] = {b}] ELSE bytes
               /\ rpcResult(b).end \in {rpcResult(Whole(status, body)).end, "thrown"}
  BY ReplyComes
<1>2. requests' = [requests EXCEPT ![p] = {}] /\ UNCHANGED <<pc, waiting>>
  BY ReplyComes
<1>3. \A q \in Payment : Made(q)' <=> Made(q)
  BY MadeStays
<1>4. DOMAIN spentBy' = Id /\ spentBy' = [id \in Id |-> spentBy'[id]]
  BY DEF IInv, Functions
<1>5. Sending(p) => ~Made(p)
  BY DEF IInv, Good, SendsOnce
<1> QED
  BY <1>1, <1>2, <1>3, <1>4, <1>5, AnswerIsGood

(* Only one thing is asked in a call.                                       *)
LEMMA NotSending ==
  ASSUME IInv, NEW p \in Payment, NEW method, Asked(p, method), method # "sendrawtx"
  PROVE  requests[p] # {} /\ ~Sending(p)
BY DEF IInv, Good, WaitsInStep, Sending, Asked

LEMMA NodeIsGood == ASSUME IInv, NEW p \in Payment, Node(p) PROVE IInv'
<1>1. CASE NodeTellsParams(p) \/ NodeLists(p) \/ NodeNames(p)
  <2>1. PICK method \in {"getblockchainparams", "listunspent", "liststreams", "listassets"} :
          Asked(p, method) /\ (\E value : Reply(p, HTTP_OK, Result(value))) /\ UNCHANGED spentBy
    BY <1>1 DEF NodeTellsParams, NodeLists, NodeNames, ReplyResult, node
  <2>2. requests[p] # {} /\ ~Sending(p)
    BY <2>1, NotSending
  <2>3. PICK value : Reply(p, HTTP_OK, Result(value))
    BY <2>1
  <2> QED
    BY <2>1, <2>2, <2>3, OtherReplyIsGood
<1>2. CASE NodeLocks(p)
  <2>1. requests[p] # {} /\ ~Sending(p) /\ UNCHANGED spentBy
    BY <1>2, NotSending DEF NodeLocks
  <2>2. PICK status, body : Reply(p, status, body)
    BY <1>2 DEF NodeLocks, ReplyResult, ReplyError
  <2> QED
    BY <2>1, <2>2, OtherReplyIsGood
<1>3. CASE NodeSpends(p)
  <2> DEFINE tx == Param(p, 1)
  <2>1. Sending(p) /\ requests[p] # {} /\ ~Made(p)
    BY <1>3 DEF NodeSpends, Sending, Asked, IInv, Good, SendsOnce
  <2>2. CASE Acceptable(tx, Kind(p))
    <3>1. spentBy' = [spentBy EXCEPT ![tx.spends.id] = p] /\ Reply(p, HTTP_OK, Result(Null))
      BY <1>3, <2>2 DEF NodeSpends, ReplyResult
    <3>2. tx.spends.id \in Id /\ spentBy[tx.spends.id] = NoPayment
      BY <2>2 DEF Acceptable, Id
    <3>3. \A q \in Payment \ {p} : Made(q)' <=> Made(q)
      BY <3>1, <3>2, WalletAssumption DEF Made, IInv, Functions
    <3>4. Made(p)'
      BY <3>1, <3>2 DEF Made, IInv, Functions
    <3>5. PICK b : /\ bytes' = IF Live(p) THEN [bytes EXCEPT ![p] = {b}] ELSE bytes
                   /\ rpcResult(b).end \in {"true", "thrown"}
      BY <3>1, ReplyComes, ResultIsTrue
    <3>6. requests' = [requests EXCEPT ![p] = {}] /\ UNCHANGED <<pc, waiting>>
      BY <3>1, ReplyComes
    <3>7. DOMAIN spentBy' = Id /\ spentBy' = [id \in Id |-> spentBy'[id]]
      BY <3>1 DEF IInv, Functions
    <3> HIDE DEF tx
    <3> QED
      BY <2>1, <3>3, <3>4, <3>5, <3>6, <3>7, AnswerIsGood
  <2>3. CASE ~Acceptable(tx, Kind(p))
    <3>1. UNCHANGED spentBy /\ Reply(p, HTTP_INTERNAL_SERVER_ERROR, Error(MissingInputs))
      BY <1>3, <2>3 DEF NodeSpends, ReplyError
    <3>2. rpcResult(Whole(HTTP_INTERNAL_SERVER_ERROR, Error(MissingInputs))).end = "false"
      BY ErrorIsFalse
    <3> QED
      BY <2>1, <3>1, <3>2, OtherReplyIsGood
  <2> QED
    BY <2>2, <2>3
<1>4. CASE NodeRefuses(p)
  <2>1. /\ requests[p] # {} /\ UNCHANGED spentBy
        /\ Reply(p, HTTP_INTERNAL_SERVER_ERROR, Error(WarmUp))
    BY <1>4 DEF NodeRefuses, ReplyError, node
  <2>2. rpcResult(Whole(HTTP_INTERNAL_SERVER_ERROR, Error(WarmUp))).end = "false"
    BY ErrorIsFalse
  <2> QED
    BY <2>1, <2>2, OtherReplyIsGood
<1>5. CASE NodeFails(p)
  <2>1. /\ requests[p] # {} /\ requests' = [requests EXCEPT ![p] = {}]
        /\ UNCHANGED <<pc, waiting, spentBy>>
    BY <1>5 DEF NodeFails, node, chosen
  <2>2. PICK b \in NoAnswer(p) : bytes' = IF Live(p) THEN [bytes EXCEPT ![p] = {b}] ELSE bytes
    BY <1>5 DEF NodeFails
  <2>3. rpcResult(b).end = "thrown"
    BY <2>2, NoAnswerThrows
  <2>4. \A q \in Payment : Made(q)' <=> Made(q)
    BY <2>1, MadeStays
  <2>5. DOMAIN spentBy' = Id /\ spentBy' = [id \in Id |-> spentBy'[id]]
    BY <2>1 DEF IInv, Functions
  <2> QED
    BY <2>1, <2>2, <2>3, <2>4, <2>5, AnswerIsGood
<1> QED
  BY <1>1, <1>2, <1>3, <1>4, <1>5 DEF Node

-----------------------------------------------------------------------------
(* A part that reads an answer, of whatever kind.                           *)
LEMMA ReadingGoesOn ==
  ASSUME NEW p \in Payment,
         \/ Throw(p) \/ MakeHelper(p) \/ ChooseUnspent(p) \/ NoListing(p) \/ Lock(p)
         \/ Unlock(p) \/ NotLocked(p) \/ ChooseKind(p) \/ NoKind(p)
  PROVE  \E at \in Steps \ {"send"} : \E end, step :
           /\ Answered(p, at, end) /\ Goto(p, step)
           /\ step = "thrown" \/ (end # "thrown" /\ step \in
                {"list", "lock", "unlock", "which", "build", "terminated"})
<1>1. CASE Throw(p)
  BY <1>1 DEF Throw, Steps
<1>2. CASE MakeHelper(p)
  BY <1>2 DEF MakeHelper, Steps
<1>3. CASE ChooseUnspent(p)
  <2>1. Answered(p, "list", "true") /\ (Goto(p, "thrown") \/ Goto(p, "lock"))
    BY <1>3 DEF ChooseUnspent
  <2> QED
    BY <2>1 DEF Steps
<1>4. CASE NoListing(p)
  BY <1>4 DEF NoListing, Steps
<1>5. CASE Lock(p)
  BY <1>5 DEF Lock, Steps
<1>6. CASE Unlock(p)
  BY <1>6 DEF Unlock, Steps
<1>7. CASE NotLocked(p)
  BY <1>7 DEF NotLocked, Steps
<1>8. CASE ChooseKind(p)
  BY <1>8 DEF ChooseKind, Steps
<1>9. CASE NoKind(p)
  BY <1>9 DEF NoKind, Steps
<1> QED
  BY <1>1, <1>2, <1>3, <1>4, <1>5, <1>6, <1>7, <1>8, <1>9

LEMMA ReadingIsGood ==
  ASSUME IInv, NEW p \in Payment,
         \/ Throw(p) \/ MakeHelper(p) \/ ChooseUnspent(p) \/ NoListing(p) \/ Lock(p)
         \/ Unlock(p) \/ NotLocked(p) \/ ChooseKind(p) \/ NoKind(p)
  PROVE  IInv'
BY ReadingGoesOn, AnsweredIsGood

LEMMA InitIsGood == Init => IInv
<1> SUFFICES ASSUME Init PROVE IInv
  OBVIOUS
<1>1. Functions
  BY DEF Init, Functions
<1>2. ASSUME NEW p \in Payment PROVE Good(p)
  <2>1. pc[p] \in {"none", "idle", "params"} /\ waiting[p] = FALSE /\ requests[p] = {} /\ bytes[p] = {}
    BY DEF Init
  <2>2. ~Made(p)
    BY WalletAssumption DEF Init, Made
  <2> QED
    BY <2>1, <2>2 DEF Good, WaitsInStep, SendsOnce, MadeWhenSent, RepliesAreTrue, ToldTruly,
                      Sending, Asked
<1> QED
  BY <1>1, <1>2 DEF IInv

LEMMA NextIsGood == ASSUME IInv, [Next]_vars PROVE IInv'
<1>1. CASE UNCHANGED vars
  <2>1. UNCHANGED <<pc, waiting, requests, bytes, spentBy>>
    BY <1>1 DEF vars, wire, node
  <2> QED
    BY <2>1 DEF IInv, Functions, Good, WaitsInStep, SendsOnce, MadeWhenSent, RepliesAreTrue,
                ToldTruly, Sending, Asked, Made
<1>2. ASSUME NEW p \in Payment, Part(p) PROVE IInv'
  BY <1>2, ReadingIsGood, BeginIsGood, CallIsGood, BuildIsGood, SentIsGood DEF Part
<1> QED
  BY <1>1, <1>2, NodeIsGood, CannotConnectIsGood, LoseConnectionIsGood DEF Next

THEOREM InductiveInvariant == Spec => []IInv
BY InitIsGood, NextIsGood, PTL DEF Spec

-----------------------------------------------------------------------------
(* Every step is one of Payments, or changes neither what was paid nor what *)
(* is told.                                                                 *)
LEMMA StepTells ==
  ASSUME IInv, NEW p \in Payment, NEW step, Goto(p, step)
  PROVE  told' = [told EXCEPT ![p] = ToldBy(step)]
BY DEF IInv, Functions, Goto, told

LEMMA SameIsTold ==
  ASSUME NEW p \in Payment, told' = [told EXCEPT ![p] = ToldBy(pc[p])]
  PROVE  told' = told
BY DEF told

LEMMA PartImplements ==
  ASSUME IInv, NEW p \in Payment, Part(p)
  PROVE  P!Next \/ UNCHANGED <<spentBy, told>>
<1>1. Good(p) /\ told[p] = ToldBy(pc[p]) /\ (Made(p) <=> P!Made(p))
  BY DEF IInv, told, Made, P!Made
<1>2. UNCHANGED spentBy
  BY DEF Part, Begin, Call, Throw, MakeHelper, ChooseUnspent, NoListing, Lock, Unlock, NotLocked,
         ChooseKind, NoKind, Build, Sent, Answered, node
<1>3. CASE Call(p)
  BY <1>2, <1>3 DEF Call, told
<1>4. ASSUME NEW step, Goto(p, step), ToldBy(step) = ToldBy(pc[p])
      PROVE  UNCHANGED <<spentBy, told>>
  BY <1>2, <1>4, StepTells, SameIsTold
<1>5. ASSUME NEW step, Goto(p, step), ToldBy(pc[p]) = "nothing",
             ToldBy(step) \in {"made", "not made", "unknown"},
             ToldBy(step) = "made" => Made(p), ToldBy(step) = "not made" => ~Made(p)
      PROVE  P!Next
  <2>1. P!Tell(p, ToldBy(step))
    BY <1>1, <1>2, <1>5, StepTells DEF P!Tell
  <2> QED
    BY <1>5, <2>1 DEF P!Next
<1>6. CASE Begin(p)
  BY <1>4, <1>6 DEF Begin, ToldBy
<1>7. CASE Build(p)
  <2>1. pc[p] = "build" /\ (Goto(p, "send") \/ Goto(p, "crashed"))
    BY <1>7 DEF Build
  <2>2. ~Made(p)
    BY <1>1, <2>1 DEF Good, MadeWhenSent, WaitsInStep, Steps
  <2> QED
    BY <1>4, <1>5, <2>1, <2>2 DEF ToldBy
<1>8. CASE Sent(p)
  <2>1. PICK end, step :
          /\ Answered(p, "send", end) /\ Goto(p, step)
          /\ <<end, step>> \in {<<"true", "made">>, <<"false", "refused">>, <<"thrown", "unsure">>}
    BY <1>8 DEF Sent
  <2>2. pc[p] = "send" /\ (end = "true" => Made(p)) /\ (end = "false" => ~Made(p))
    BY <1>1, <2>1 DEF Good, RepliesAreTrue, Answered
  <2> QED
    BY <1>5, <2>1, <2>2 DEF ToldBy
<1>9. ASSUME NEW at \in Steps \ {"send"}, NEW end, NEW step, Answered(p, at, end), Goto(p, step),
             step \in {"list", "lock", "unlock", "which", "build", "thrown", "terminated"}
      PROVE  P!Next \/ UNCHANGED <<spentBy, told>>
  <2>1. pc[p] = at
    BY <1>9 DEF Answered
  <2>2. ~Made(p)
    BY <1>1, <2>1 DEF Good, MadeWhenSent, Steps
  <2>3. ToldBy(pc[p]) = "nothing"
    BY <2>1 DEF ToldBy, Steps
  <2>4. ToldBy(step) \in {"nothing", "not made"}
    BY <1>9 DEF ToldBy
  <2> QED
    BY <1>4, <1>5, <1>9, <2>2, <2>3, <2>4
<1>10. CASE \/ Throw(p) \/ MakeHelper(p) \/ ChooseUnspent(p) \/ NoListing(p) \/ Lock(p)
            \/ Unlock(p) \/ NotLocked(p) \/ ChooseKind(p) \/ NoKind(p)
  <2>0. PICK at \in Steps \ {"send"} : \E end, step :
          /\ Answered(p, at, end) /\ Goto(p, step)
          /\ step \in {"list", "lock", "unlock", "which", "build", "thrown", "terminated"}
    BY <1>10, ReadingGoesOn
  <2>1. PICK end, step :
          /\ Answered(p, at, end) /\ Goto(p, step)
          /\ step \in {"list", "lock", "unlock", "which", "build", "thrown", "terminated"}
    BY <2>0
  <2> QED
    BY <1>9, <2>1
<1> QED
  BY <1>3, <1>6, <1>7, <1>8, <1>10 DEF Part

LEMMA NodeImplements ==
  ASSUME IInv, NEW p \in Payment, Node(p)
  PROVE  P!Next \/ UNCHANGED <<spentBy, told>>
<1>1. UNCHANGED pc
  BY DEF Node, NodeTellsParams, NodeLists, NodeLocks, NodeNames, NodeSpends, NodeRefuses, NodeFails,
         ReplyResult, ReplyError, Reply
<1>2. UNCHANGED told
  BY <1>1 DEF told
<1>3. CASE UNCHANGED spentBy
  BY <1>2, <1>3
<1>4. CASE NodeSpends(p) /\ Acceptable(Param(p, 1), Kind(p))
  <2> DEFINE id == Param(p, 1).spends.id
  <2>1. id \in Id /\ spentBy[id] = NoPayment /\ spentBy' = [spentBy EXCEPT ![id] = p]
    BY <1>4 DEF NodeSpends, Acceptable, Id
  <2>2. Sending(p) /\ Good(p)
    BY <1>4 DEF NodeSpends, Sending, IInv
  <2>3. ~Made(p) /\ pc[p] \in {"send", "unsure"}
    BY <2>2 DEF Good, SendsOnce
  <2>4. told[p] \in {"nothing", "unknown"}
    BY <2>3 DEF told, ToldBy
  <2>5. P!Make(p, id)
    BY <1>2, <2>1, <2>3, <2>4 DEF P!Make, P!Made, Made
  <2> QED
    BY <2>1, <2>5 DEF P!Next
<1> QED
  BY <1>3, <1>4 DEF Node, NodeTellsParams, NodeLists, NodeLocks, NodeNames, NodeSpends,
                    NodeRefuses, NodeFails, node

LEMMA StepImplements ==
  ASSUME IInv, [Next]_vars
  PROVE  [P!Next]_<<spentBy, told>>
<1>1. CASE UNCHANGED vars
  BY <1>1 DEF vars, node, told
<1>2. ASSUME NEW p \in Payment, CannotConnect(p) \/ LoseConnection(p)
      PROVE  UNCHANGED <<spentBy, told>>
  BY <1>2 DEF CannotConnect, LoseConnection, node, told
<1> QED
  BY <1>1, <1>2, PartImplements, NodeImplements DEF Next

LEMMA InitImplements == Init => P!Init
<1> SUFFICES ASSUME Init PROVE P!Init
  OBVIOUS
<1>1. \A p \in Payment : ToldBy(pc[p]) = "nothing"
  BY DEF Init, ToldBy
<1> QED
  BY <1>1 DEF Init, P!Init, told

(* A session makes each payment at most once and knows of it only what is   *)
(* so, for any number of sessions and outputs and whatever the network does *)
(* with the calls (rpcclient.cpp:28-84).                                    *)
THEOREM Refinement == Spec => PaysOnceAndKnows
<1>1. Spec => [][P!Next]_<<spentBy, told>>
  BY InductiveInvariant, StepImplements, PTL DEF Spec
<1>2. Spec => P!Init
  BY InitImplements DEF Spec
<1> QED
  BY <1>1, <1>2 DEF PaysOnceAndKnows, P!Spec

-----------------------------------------------------------------------------
(* The locks: also a call that is handled after its session has given up.   *)
(* What a call for a lock that is still under way asks for.                 *)
AsksForItsLock(p) ==
  \A r \in requests[p] :
    /\ r.method = "lockunspent" =>
         /\ pc[p] \in {"lock", "unlock", "thrown"}
         /\ r.params[2][1] = unspent[p].id
         /\ pc[p] = "lock" => ~r.params[1]
    /\ pc[p] = "unlock" => r.method = "lockunspent" /\ r.params[1]

(* A payment that keeps a lock: it has not been told yet that it is gone.   *)
Keeps(p, id) ==
  /\ unspent[p].id = id
  /\ \/ pc[p] \in {"lock", "thrown", "terminated"}
     \/ pc[p] = "unlock" /\ \A b \in bytes[p] : rpcResult(b).end # "true"

LocksInv ==
  /\ unspent = [p \in Payment |-> unspent[p]] /\ DOMAIN unspent = Payment
  /\ \A p \in Payment : AsksForItsLock(p)
  /\ \A id \in locked : \E p \in Payment : Keeps(p, id)

(* A payment that does nothing in a step keeps its lock.                    *)
LEMMA OthersKeep ==
  ASSUME NEW q, pc'[q] = pc[q], bytes'[q] = bytes[q], requests'[q] = requests[q],
         unspent'[q] = unspent[q]
  PROVE  /\ AsksForItsLock(q) => AsksForItsLock(q)'
         /\ \A id : Keeps(q, id) => Keeps(q, id)'
BY DEF AsksForItsLock, Keeps

(* A step of one payment that keeps its lock, or locks and unlocks for it.  *)
LEMMA StepKeeps ==
  ASSUME IInv, LocksInv, NEW p \in Payment, NEW step, NEW asked, NEW reply, NEW output,
         pc' = [pc EXCEPT ![p] = step],
         requests' = [requests EXCEPT ![p] = asked],
         bytes' = [bytes EXCEPT ![p] = reply],
         unspent' = [unspent EXCEPT ![p] = output],
         AsksForItsLock(p)',
         \A id \in locked' : id \in locked \/ Keeps(p, id)',
         \A id \in locked' : Keeps(p, id) => Keeps(p, id)'
  PROVE  LocksInv'
<1>1. unspent' = [q \in Payment |-> unspent'[q]] /\ DOMAIN unspent' = Payment
  BY DEF LocksInv
<1>2. ASSUME NEW q \in Payment \ {p}
      PROVE  AsksForItsLock(q)' /\ \A id : Keeps(q, id) => Keeps(q, id)'
  <2>1. /\ pc'[q] = pc[q] /\ bytes'[q] = bytes[q] /\ requests'[q] = requests[q]
        /\ unspent'[q] = unspent[q]
    BY <1>2 DEF IInv, Functions, LocksInv
  <2> QED
    BY <2>1, OthersKeep DEF LocksInv
<1>3. ASSUME NEW id \in locked' PROVE \E q \in Payment : Keeps(q, id)'
  <2>1. CASE id \in locked
    <3>1. PICK q \in Payment : Keeps(q, id)
      BY <2>1 DEF LocksInv
    <3> QED
      BY <1>2, <3>1
  <2> QED
    BY <2>1
<1>4. \A q \in Payment : AsksForItsLock(q)'
  BY <1>2
<1> QED
  BY <1>1, <1>3, <1>4 DEF LocksInv

(* A step that reads an answer.  A lock is left behind only by a failure,   *)
(* and none after the node has said that it is gone.                        *)
LEMMA ReadKeeps ==
  ASSUME IInv, LocksInv, NEW p \in Payment, NEW at \in Steps, NEW end, NEW step, NEW output,
         Answered(p, at, end), Goto(p, step), unspent' = [unspent EXCEPT ![p] = output],
         at = "list" \/ output = unspent[p],
         end # "thrown" \/ step = "unsure" \/ (step = "thrown" /\ output = unspent[p]),
         step = "unsure" => at = "send",
         at \in {"lock", "unlock"} =>
           step \in {"unlock", "thrown", "terminated"} \/ (at = "unlock" /\ end = "true")
  PROVE  LocksInv'
<1> DEFINE asked == requests[p]
<1>1. /\ pc[p] = at /\ Good(p) /\ \E b \in bytes[p] : rpcResult(b).end = end
      /\ AsksForItsLock(p)
  BY DEF IInv, Answered, LocksInv
<1>2. /\ pc' = [pc EXCEPT ![p] = step] /\ requests' = [requests EXCEPT ![p] = asked]
      /\ bytes' = [bytes EXCEPT ![p] = {}] /\ locked' = locked
  BY DEF Answered, Goto, node, IInv, Functions
<1>3. /\ pc'[p] = step /\ requests'[p] = requests[p] /\ bytes'[p] = {} /\ unspent'[p] = output
  BY <1>2 DEF IInv, Functions, LocksInv
<1>4. end # "thrown" => requests[p] = {}
  BY <1>1 DEF Good, RepliesAreTrue
<1>5. AsksForItsLock(p)'
  <2>1. CASE end # "thrown"
    BY <1>3, <1>4, <2>1 DEF AsksForItsLock
  <2>2. CASE step = "unsure"
    BY <1>1, <1>3, <2>2 DEF Good, RepliesAreTrue, AsksForItsLock
  <2>3. CASE step = "thrown" /\ output = unspent[p]
    BY <1>1, <1>3, <2>3 DEF AsksForItsLock
  <2> QED
    BY <2>1, <2>2, <2>3
<1>6. ASSUME NEW id, Keeps(p, id) PROVE Keeps(p, id)'
  <2>1. at \in {"lock", "unlock"} /\ ~(at = "unlock" /\ end = "true")
    BY <1>1, <1>6 DEF Keeps, Steps
  <2>2. step \in {"unlock", "thrown", "terminated"} /\ output = unspent[p]
    BY <2>1
  <2> QED
    BY <1>3, <1>6, <2>2 DEF Keeps
<1> HIDE DEF asked
<1> QED
  BY <1>2, <1>5, <1>6, StepKeeps

LEMMA PartKeeps == ASSUME IInv, LocksInv, NEW p \in Payment, Part(p) PROVE LocksInv'
<1>0. unspent = [unspent EXCEPT ![p] = unspent[p]]
  BY DEF LocksInv
<1>1. CASE Throw(p)
  <2>1. PICK at \in Steps \ {"send"} : Answered(p, at, "thrown")
    BY <1>1 DEF Throw
  <2>2. Goto(p, "thrown") /\ unspent' = unspent
    BY <1>1 DEF Throw, chosen
  <2> QED
    BY <1>0, <2>1, <2>2, ReadKeeps
<1>2. CASE MakeHelper(p)
  <2>1. PICK end \in {"true", "false"} : Answered(p, "params", end)
    BY <1>2 DEF MakeHelper
  <2>2. Goto(p, "list") /\ unspent' = unspent
    BY <1>2 DEF MakeHelper
  <2> QED
    BY <1>0, <2>1, <2>2, ReadKeeps DEF Steps
<1>3. CASE ChooseUnspent(p)
  <2>1. /\ Answered(p, "list", "true")
        /\ \/ Goto(p, "thrown") /\ unspent' = unspent
           \/ Goto(p, "lock") /\ \E output : unspent' = [unspent EXCEPT ![p] = output]
    BY <1>3 DEF ChooseUnspent
  <2>2. CASE Goto(p, "thrown") /\ unspent' = unspent
    BY <1>0, <2>1, <2>2, ReadKeeps DEF Steps
  <2>3. CASE Goto(p, "lock") /\ \E output : unspent' = [unspent EXCEPT ![p] = output]
    BY <2>1, <2>3, ReadKeeps DEF Steps
  <2> QED
    BY <2>1, <2>2, <2>3
<1>4. CASE NoListing(p)
  <2>1. PICK step \in {"lock", "terminated"} : Goto(p, step)
    BY <1>4 DEF NoListing
  <2>2. Answered(p, "list", "false") /\ unspent' = unspent
    BY <1>4 DEF NoListing, chosen
  <2> QED
    BY <1>0, <2>1, <2>2, ReadKeeps DEF Steps
<1>5. CASE Lock(p)
  <2>1. Answered(p, "lock", "true") /\ Goto(p, "unlock") /\ unspent' = unspent
    BY <1>5 DEF Lock, chosen
  <2> QED
    BY <1>0, <2>1, ReadKeeps DEF Steps
<1>6. CASE Unlock(p)
  <2>1. Answered(p, "unlock", "true") /\ Goto(p, "which") /\ unspent' = unspent
    BY <1>6 DEF Unlock, chosen
  <2> QED
    BY <1>0, <2>1, ReadKeeps DEF Steps
<1>7. CASE NotLocked(p)
  <2>1. PICK at \in {"lock", "unlock"} : Answered(p, at, "false")
    BY <1>7 DEF NotLocked
  <2>2. Goto(p, "terminated") /\ unspent' = unspent
    BY <1>7 DEF NotLocked, chosen
  <2> QED
    BY <1>0, <2>1, <2>2, ReadKeeps DEF Steps
<1>8. CASE ChooseKind(p)
  <2>1. Answered(p, "which", "true") /\ Goto(p, "build") /\ unspent' = unspent
    BY <1>8 DEF ChooseKind
  <2> QED
    BY <1>0, <2>1, ReadKeeps DEF Steps
<1>9. CASE NoKind(p)
  <2>1. PICK step \in {"build", "terminated"} : Goto(p, step)
    BY <1>9 DEF NoKind
  <2>2. Answered(p, "which", "false") /\ unspent' = unspent
    BY <1>9 DEF NoKind, chosen
  <2> QED
    BY <1>0, <2>1, <2>2, ReadKeeps DEF Steps
<1>10. CASE Sent(p)
  <2>1. PICK end, step :
          /\ Answered(p, "send", end) /\ Goto(p, step)
          /\ <<end, step>> \in {<<"true", "made">>, <<"false", "refused">>, <<"thrown", "unsure">>}
    BY <1>10 DEF Sent
  <2>2. unspent' = unspent
    BY <1>10 DEF Sent, chosen
  <2> QED
    BY <1>0, <2>1, <2>2, ReadKeeps DEF Steps
<1>11. CASE Begin(p) \/ Build(p)
  <2>1. /\ pc[p] \in {"idle", "build"} /\ UNCHANGED <<unspent, requests, bytes, locked>>
        /\ \E step \in {"params", "send", "crashed"} : pc' = [pc EXCEPT ![p] = step]
    BY <1>11 DEF Begin, Build, Goto, chosen, wire, node
  <2>2. PICK step \in {"params", "send", "crashed"} : pc' = [pc EXCEPT ![p] = step]
    BY <2>1
  <2>3. /\ requests' = [requests EXCEPT ![p] = requests[p]] /\ bytes' = [bytes EXCEPT ![p] = bytes[p]]
    BY <2>1 DEF IInv, Functions
  <2>4. requests[p] = {}
    BY <2>1 DEF IInv, Good, WaitsInStep, Steps
  <2>5. requests'[p] = {}
    BY <2>1, <2>4
  <2>6. AsksForItsLock(p)' /\ \A id : ~Keeps(p, id)
    BY <2>1, <2>5 DEF AsksForItsLock, Keeps
  <2> QED
    BY <1>0, <2>1, <2>2, <2>3, <2>6, StepKeeps
<1>12. CASE Call(p)
  <2>1. /\ requests' = [requests EXCEPT ![p] = {RequestOf(p)}] /\ pc[p] \in Steps
        /\ UNCHANGED <<pc, unspent, bytes, locked>>
    BY <1>12 DEF Call, chosen, node
  <2>2. pc' = [pc EXCEPT ![p] = pc[p]] /\ bytes' = [bytes EXCEPT ![p] = bytes[p]]
    BY <2>1 DEF IInv, Functions
  <2>3. requests'[p] = {RequestOf(p)}
    BY <2>1 DEF IInv, Functions
  <2>4. AsksForItsLock(p)'
    <3>1. CASE pc[p] \in {"lock", "unlock"}
      <4>1. RequestOf(p) = Request("lockunspent", <<pc[p] = "unlock", <<unspent[p].id>>>>)
        BY <3>1 DEF RequestOf, lockunspent
      <4>2. /\ RequestOf(p).params[2][1] = unspent[p].id
            /\ RequestOf(p).params[1] = (pc[p] = "unlock")
            /\ RequestOf(p).method = "lockunspent"
        BY <4>1 DEF Request
      <4> QED
        BY <2>1, <2>3, <3>1, <4>2 DEF AsksForItsLock
    <3>2. CASE pc[p] \notin {"lock", "unlock"}
      <4>1. RequestOf(p).method # "lockunspent"
        BY <2>1, <3>2
           DEF RequestOf, Steps, getblockchainparams, listunspentOf, listunspent, liststreams,
               listassets, sendrawtx, Request
      <4> QED
        BY <2>1, <2>3, <3>2, <4>1 DEF AsksForItsLock
    <3> QED
      BY <3>1, <3>2
  <2>5. \A id : Keeps(p, id) => Keeps(p, id)'
    BY <2>1 DEF Keeps
  <2> QED
    BY <1>0, <2>1, <2>2, <2>4, <2>5, StepKeeps
<1> QED
  BY <1>1, <1>2, <1>3, <1>4, <1>5, <1>6, <1>7, <1>8, <1>9, <1>10, <1>11, <1>12 DEF Part

(* A connection that is lost tells nothing.                                 *)
LEMMA LossKeeps ==
  ASSUME IInv, LocksInv, NEW p \in Payment, CannotConnect(p) \/ LoseConnection(p)
  PROVE  LocksInv'
<1>1. bytes' = [bytes EXCEPT ![p] = {NoBytes}] /\ UNCHANGED <<pc, unspent, requests, locked>>
  BY DEF CannotConnect, LoseConnection, chosen, node
<1>2. pc' = [pc EXCEPT ![p] = pc[p]] /\ requests' = [requests EXCEPT ![p] = requests[p]]
      /\ unspent' = [unspent EXCEPT ![p] = unspent[p]]
  BY <1>1 DEF IInv, Functions, LocksInv
<1>3. bytes'[p] = {NoBytes} /\ AsksForItsLock(p)
  BY <1>1 DEF IInv, Functions, LocksInv
<1>4. AsksForItsLock(p)' /\ \A id : Keeps(p, id) => Keeps(p, id)'
  BY <1>1, <1>3, NoBytesThrow DEF AsksForItsLock, Keeps
<1> QED
  BY <1>1, <1>2, <1>4, StepKeeps

LEMMA NodeKeeps == ASSUME IInv, LocksInv, NEW p \in Payment, Node(p) PROVE LocksInv'
<1>1. requests[p] # {} /\ UNCHANGED <<pc, unspent>>
      /\ requests' = [requests EXCEPT ![p] = {}]
  BY DEF Node, NodeTellsParams, NodeLists, NodeLocks, NodeNames, NodeSpends, NodeRefuses, NodeFails,
         ReplyResult, ReplyError, Reply, Asked, chosen
<1>2. PICK reply : bytes' = [bytes EXCEPT ![p] = reply]
  <2>1. bytes = [bytes EXCEPT ![p] = bytes[p]]
    BY DEF IInv, Functions
  <2> QED
    BY <2>1 DEF Node, NodeTellsParams, NodeLists, NodeLocks, NodeNames, NodeSpends, NodeRefuses,
         NodeFails, ReplyResult, ReplyError, Reply
<1>3. pc' = [pc EXCEPT ![p] = pc[p]] /\ unspent' = [unspent EXCEPT ![p] = unspent[p]]
  BY <1>1 DEF IInv, Functions, LocksInv
<1>4. requests'[p] = {} /\ AsksForItsLock(p)
  BY <1>1 DEF IInv, Functions, LocksInv
<1>5. AsksForItsLock(p)'
  BY <1>4 DEF AsksForItsLock
<1>6. CASE NodeLocks(p) /\ locked' # locked
  <2>0. PICK id : id = Param(p, 2)[1]
    OBVIOUS
  <2>1. PICK r \in requests[p] : r.method = "lockunspent"
    BY <1>6 DEF NodeLocks, Asked
  <2>2. requests[p] = {r}
    BY <2>1 DEF IInv, Good, WaitsInStep
  <2>3. (CHOOSE x \in requests[p] : TRUE) = r
    BY <2>2
  <2>4. /\ locked' = IF r.params[1] THEN locked \ {id} ELSE locked \cup {id}
        /\ id = unspent[p].id /\ pc[p] \in {"lock", "unlock", "thrown"}
        /\ pc[p] = "lock" => ~r.params[1]
        /\ pc[p] = "unlock" => r.params[1]
    BY <1>4, <1>6, <2>0, <2>1, <2>3 DEF NodeLocks, Param, AsksForItsLock
  <2>5. CASE r.params[1]
    <3>1. \A x : Keeps(p, x) => x = id
      BY <2>4 DEF Keeps
    <3>2. \A x \in locked' : x # id /\ x \in locked
      BY <2>4, <2>5
    <3> QED
      BY <1>1, <1>2, <1>3, <1>5, <3>1, <3>2, StepKeeps
  <2>6. CASE ~r.params[1]
    <3>1. pc[p] \in {"lock", "thrown"} /\ locked' = locked \cup {id}
      BY <2>4, <2>6
    <3>2. Keeps(p, id)' /\ \A x : Keeps(p, x) => Keeps(p, x)'
      BY <1>1, <2>4, <3>1 DEF Keeps
    <3> QED
      BY <1>1, <1>2, <1>3, <1>5, <3>1, <3>2, StepKeeps
  <2> QED
    BY <2>5, <2>6
<1>7. CASE locked' = locked /\ pc[p] # "unlock"
  <2>1. \A id : Keeps(p, id) => Keeps(p, id)'
    BY <1>1, <1>7 DEF Keeps
  <2> QED
    BY <1>1, <1>2, <1>3, <1>5, <1>7, <2>1, StepKeeps
<1>8. CASE locked' = locked /\ pc[p] = "unlock"
  <2>1. PICK r \in requests[p] : TRUE
    BY <1>1
  <2>2. requests[p] = {r} /\ r.method = "lockunspent" /\ r.params[1] /\ r.params[2][1] = unspent[p].id
    BY <1>4, <1>8, <2>1 DEF IInv, Good, WaitsInStep, AsksForItsLock
  <2>3. (CHOOSE x \in requests[p] : TRUE) = r
    BY <2>2
  <2>4. NodeLocks(p) \/ NodeRefuses(p) \/ NodeFails(p)
    BY <2>2 DEF Node, NodeTellsParams, NodeLists, NodeNames, NodeSpends, Asked
  <2>5. ASSUME NEW b \in bytes'[p], b \notin bytes[p], rpcResult(b).end = "true"
        PROVE  unspent[p].id \notin locked
    <3>1. CASE NodeLocks(p)
      <4>1. CASE Param(p, 2)[1] \notin Id
        <5>1. ReplyError(p, Invalid)
          BY <3>1, <4>1 DEF NodeLocks
        <5>2. b \in {Whole(HTTP_INTERNAL_SERVER_ERROR, Error(Invalid)), Cut(HTTP_INTERNAL_SERVER_ERROR, Error(Invalid))}
          BY <2>5, <5>1 DEF ReplyError, Reply, IInv, Functions
        <5> QED
          BY <2>5, <5>2, ErrorIsFalse, CutThrows
      <4>2. CASE Param(p, 2)[1] \in Id
        BY <1>8, <2>2, <2>3, <3>1, <4>2 DEF NodeLocks, Param
      <4> QED
        BY <4>1, <4>2
    <3>2. CASE NodeRefuses(p)
      <4>1. b \in {Whole(HTTP_INTERNAL_SERVER_ERROR, Error(WarmUp)), Cut(HTTP_INTERNAL_SERVER_ERROR, Error(WarmUp))}
        BY <2>5, <3>2 DEF NodeRefuses, ReplyError, Reply, IInv, Functions
      <4> QED
        BY <2>5, <4>1, ErrorIsFalse, CutThrows
    <3>3. CASE NodeFails(p)
      <4>1. b \in NoAnswer(p)
        BY <2>5, <3>3 DEF NodeFails, IInv, Functions
      <4> QED
        BY <2>5, <4>1, NoAnswerThrows
    <3> QED
      BY <2>4, <3>1, <3>2, <3>3
  <2>6. \A id \in locked' : Keeps(p, id) => Keeps(p, id)'
    BY <1>1, <1>8, <2>5 DEF Keeps
  <2> QED
    BY <1>1, <1>2, <1>3, <1>5, <1>8, <2>6, StepKeeps
<1>9. locked' = locked \/ (NodeLocks(p) /\ locked' # locked)
  BY DEF Node, NodeTellsParams, NodeLists, NodeNames, NodeSpends, NodeRefuses, NodeFails, node
<1> QED
  BY <1>6, <1>7, <1>8, <1>9

LEMMA InitLocks == Init => LocksInv
<1> SUFFICES ASSUME Init PROVE LocksInv
  OBVIOUS
<1>1. unspent = [p \in Payment |-> unspent[p]] /\ DOMAIN unspent = Payment
      /\ locked = {} /\ \A p \in Payment : requests[p] = {}
  BY DEF Init
<1> QED
  BY <1>1 DEF LocksInv, AsksForItsLock

LEMMA NextLocks == ASSUME IInv, LocksInv, [Next]_vars PROVE LocksInv'
<1>1. CASE UNCHANGED vars
  BY <1>1 DEF vars, chosen, wire, node, LocksInv, AsksForItsLock, Keeps
<1> QED
  BY <1>1, PartKeeps, LossKeeps, NodeKeeps DEF Next

LEMMA LocksInvReleased == LocksInv => LocksAreReleased
BY DEF LocksInv, Keeps, LocksAreReleased

(* The locks that stay are those of payments that are about to unlock them  *)
(* or that failed on the way, for any sessions and outputs and however late *)
(* a call is handled (main.cpp:153-159, 306-312).                           *)
THEOREM LocksReleased == Spec => []LocksAreReleased
BY InitLocks, NextLocks, LocksInvReleased, InductiveInvariant, PTL DEF Spec

-----------------------------------------------------------------------------
(* What was chosen, asked for and answered.                                 *)
(* The output a payment has chosen is one of the address, of which it has   *)
(* noted the quantity, and it fits what is to be paid.                      *)
Suited(p) ==
  \E output \in Output :
    /\ output.id = unspent[p].id /\ output.address = Address
    /\ Qty(output, Asset) = unspent[p].qty
    /\ IF Kind(p) = "pay" THEN Holds(output, Asset) ELSE output.assets = <<>>

Right(p) == IF Kind(p) = "publish" THEN Stream ELSE Asset

(* What has been chosen when a step is reached.                             *)
ChosenInStep(p) ==
  /\ pc[p] \in {"idle", "params", "list"} => unspent[p] = NoUnspent
  /\ pc[p] = "lock" => unspent[p].id = "" \/ Suited(p)
  /\ pc[p] \in {"unlock", "which", "build", "send", "unsure"} => Suited(p)
  /\ pc[p] = "build" => about[p] = Right(p) \/ (Kind(p) = "publish" /\ about[p] = "")
  /\ pc[p] \in {"idle", "params", "list", "lock", "unlock", "which"} => about[p] = ""
  /\ pc[p] \in {"send", "unsure"} =>
       about[p] = Right(p) \/ (Kind(p) = "publish" /\ about[p] = "unknown")

(* A call that is under way asks for what its step needs.                   *)
AsksForItsStep(p) ==
  \A r \in requests[p] :
    /\ pc[p] \in Steps => r = RequestOf(p)
    /\ pc[p] = "unsure" => r = sendrawtx([spends |-> unspent[p], about |-> about[p]])

(* An answer is whole, and gives what was asked for.                        *)
Gives(p, value) ==
  /\ pc[p] = "list" => \A output \in value.outputs : output \in Output /\ output.address = Address
  /\ pc[p] = "lock" => unspent[p].id \in Id
  /\ pc[p] = "which" => value.names[1] = Right(p)

Answers(p, b) ==
  \/ rpcResult(b).end = "thrown"
  \/ rpcResult(b).end = "false" /\ WholeAnswer(b) /\ b.body.error # NoError
  \/ rpcResult(b).end = "true" /\ WholeAnswer(b) /\ Gives(p, rpcResult(b).value)

AnswersFit(p) ==
  /\ \A b \in bytes[p] : Answers(p, b)
  /\ \A b1, b2 \in bytes[p] : b1 = b2

Fits(p) == ChosenInStep(p) /\ AsksForItsStep(p) /\ AnswersFit(p)

ChosenInv ==
  /\ unspent = [p \in Payment |-> unspent[p]] /\ DOMAIN unspent = Payment
  /\ about = [p \in Payment |-> about[p]] /\ DOMAIN about = Payment
  /\ helper \in [Payment -> BOOLEAN]
  /\ \A p \in Payment : Fits(p)
(* A payment that does nothing in a step keeps what it chose.               *)
LEMMA OthersFit ==
  ASSUME NEW q, Fits(q), pc'[q] = pc[q], bytes'[q] = bytes[q], requests'[q] = requests[q],
         unspent'[q] = unspent[q], about'[q] = about[q]
  PROVE  Fits(q)'
<1>1. ChosenInStep(q)'
  BY DEF Fits, ChosenInStep, Suited
<1>2. RequestOf(q)' = RequestOf(q)
  BY DEF RequestOf
<1>3. AsksForItsStep(q)'
  BY <1>2 DEF Fits, AsksForItsStep
<1>4. \A b : Answers(q, b) => Answers(q, b)'
  BY DEF Answers, Gives
<1>5. AnswersFit(q)'
  BY <1>4 DEF Fits, AnswersFit
<1> QED
  BY <1>1, <1>3, <1>5 DEF Fits

LEMMA StepFits ==
  ASSUME IInv, ChosenInv, NEW p \in Payment, NEW step, NEW asked, NEW reply, NEW output, NEW name,
         NEW made \in BOOLEAN,
         pc' = [pc EXCEPT ![p] = step],
         requests' = [requests EXCEPT ![p] = asked],
         bytes' = [bytes EXCEPT ![p] = reply],
         unspent' = [unspent EXCEPT ![p] = output],
         about' = [about EXCEPT ![p] = name],
         helper' = [helper EXCEPT ![p] = made],
         Fits(p)'
  PROVE  ChosenInv'
<1>1. /\ unspent' = [q \in Payment |-> unspent'[q]] /\ DOMAIN unspent' = Payment
      /\ about' = [q \in Payment |-> about'[q]] /\ DOMAIN about' = Payment
  BY DEF ChosenInv
<1>2. helper' \in [Payment -> BOOLEAN]
  BY DEF ChosenInv
<1>3. ASSUME NEW q \in Payment \ {p} PROVE Fits(q)'
  <2>1. /\ pc'[q] = pc[q] /\ bytes'[q] = bytes[q] /\ requests'[q] = requests[q]
        /\ unspent'[q] = unspent[q] /\ about'[q] = about[q]
    BY <1>3 DEF IInv, Functions, ChosenInv
  <2>2. Fits(q)
    BY <1>3 DEF ChosenInv
  <2> QED
    BY <2>1, <2>2, OthersFit
<1> QED
  BY <1>1, <1>2, <1>3 DEF ChosenInv

(* A step that reads an answer.                                             *)
LEMMA ReadFits ==
  ASSUME IInv, ChosenInv, NEW p \in Payment, NEW at \in Steps, NEW end, NEW step,
         NEW output, NEW name, NEW made \in BOOLEAN,
         Answered(p, at, end), Goto(p, step),
         unspent' = [unspent EXCEPT ![p] = output],
         about' = [about EXCEPT ![p] = name],
         helper' = [helper EXCEPT ![p] = made],
         \/ end # "thrown" \/ step = "thrown"
         \/ at = "send" /\ step = "unsure" /\ output = unspent[p] /\ name = about[p],
         ChosenInStep(p)'
  PROVE  ChosenInv'
<1> DEFINE asked == requests[p]
<1>1. pc[p] = at /\ Good(p) /\ Fits(p) /\ \E b \in bytes[p] : rpcResult(b).end = end
  BY DEF IInv, Answered, ChosenInv
<1>2. /\ pc' = [pc EXCEPT ![p] = step] /\ requests' = [requests EXCEPT ![p] = asked]
      /\ bytes' = [bytes EXCEPT ![p] = {}]
  BY DEF Answered, Goto, IInv, Functions
<1>3. /\ pc'[p] = step /\ requests'[p] = requests[p] /\ bytes'[p] = {}
      /\ unspent'[p] = output /\ about'[p] = name
  BY <1>2 DEF IInv, Functions, ChosenInv
<1>4. AsksForItsStep(p)'
  <2>1. CASE end # "thrown"
    <3>1. requests[p] = {}
      BY <1>1, <2>1 DEF Good, RepliesAreTrue
    <3> QED
      BY <1>3, <3>1 DEF AsksForItsStep
  <2>2. CASE step = "thrown"
    BY <1>3, <2>2 DEF AsksForItsStep, Steps
  <2>3. CASE at = "send" /\ step = "unsure" /\ output = unspent[p] /\ name = about[p]
    <3>1. RequestOf(p) = sendrawtx([spends |-> unspent[p], about |-> about[p]])
      BY <1>1, <2>3 DEF RequestOf
    <3>2. \A r \in requests[p] : r = RequestOf(p)
      BY <1>1, <2>3 DEF Fits, AsksForItsStep, Steps
    <3> QED
      BY <1>3, <2>3, <3>1, <3>2 DEF AsksForItsStep, Steps
  <2> QED
    BY <2>1, <2>2, <2>3
<1>5. AnswersFit(p)'
  BY <1>3 DEF AnswersFit
<1>6. Fits(p)'
  BY <1>4, <1>5 DEF Fits
<1> HIDE DEF asked
<1> QED
  BY <1>2, <1>6, StepFits

(* What was answered is what fits.                                          *)
LEMMA TrueAnswerFits ==
  ASSUME ChosenInv, NEW p \in Payment, NEW at, Answered(p, at, "true")
  PROVE  Gives(p, Value(p)) /\ \E b \in bytes[p] : WholeAnswer(b)
<1>1. PICK b \in bytes[p] : rpcResult(b).end = "true"
  BY DEF Answered
<1>2. AnswersFit(p)
  BY DEF ChosenInv, Fits
<1>3. (CHOOSE x \in bytes[p] : TRUE) = b
  BY <1>1, <1>2 DEF AnswersFit
<1>4. WholeAnswer(b) /\ Gives(p, rpcResult(b).value)
  BY <1>1, <1>2 DEF AnswersFit, Answers
<1> QED
  BY <1>3, <1>4 DEF Value
LEMMA PartFits == ASSUME IInv, ChosenInv, NEW p \in Payment, Part(p) PROVE ChosenInv'
<1>0. /\ unspent = [unspent EXCEPT ![p] = unspent[p]]
      /\ about = [about EXCEPT ![p] = about[p]]
      /\ helper = [helper EXCEPT ![p] = helper[p]] /\ helper[p] \in BOOLEAN
      /\ Fits(p) /\ pc = [pc EXCEPT ![p] = pc[p]]
  BY DEF IInv, Functions, ChosenInv
<1>a. ASSUME NEW step, Goto(p, step) PROVE pc'[p] = step
  BY <1>a DEF IInv, Functions, Goto
<1>b. ASSUME NEW at, NEW end, Answered(p, at, end) PROVE pc[p] = at
  BY <1>b DEF Answered
<1>c. Kind(p) \in {"publish", "pay"}
  BY DEF Kind, Payment, Parts
<1>1. CASE Throw(p)
  <2>1. PICK at \in Steps \ {"send"} : Answered(p, at, "thrown")
    BY <1>1 DEF Throw
  <2>2. Goto(p, "thrown") /\ UNCHANGED <<unspent, about, helper>>
    BY <1>1 DEF Throw, chosen
  <2>3. ChosenInStep(p)'
    BY <1>a, <2>2 DEF ChosenInStep
  <2> QED
    BY <1>0, <2>1, <2>2, <2>3, ReadFits
<1>2. CASE MakeHelper(p)
  <2>1. PICK end \in {"true", "false"} :
          /\ Answered(p, "params", end)
          /\ helper' = [helper EXCEPT ![p] = (end = "true")]
    BY <1>2 DEF MakeHelper
  <2>2. Goto(p, "list") /\ UNCHANGED <<unspent, about>>
    BY <1>2 DEF MakeHelper
  <2>3. ChosenInStep(p)'
    BY <1>0, <1>a, <1>b, <2>1, <2>2 DEF Fits, ChosenInStep
  <2> DEFINE made == (end = "true")
  <2>4. made \in BOOLEAN /\ helper' = [helper EXCEPT ![p] = made]
    BY <2>1
  <2> HIDE DEF made
  <2>5. end # "thrown" /\ "params" \in Steps
    BY <2>1 DEF Steps
  <2>6. unspent' = [unspent EXCEPT ![p] = unspent[p]] /\ about' = [about EXCEPT ![p] = about[p]]
    BY <1>0, <2>2
  <2>7. Answered(p, "params", end) /\ Goto(p, "list")
    BY <2>1, <2>2
  <2> QED
    BY <2>3, <2>4, <2>5, <2>6, <2>7, ReadFits
<1>3. CASE ChooseUnspent(p)
  <2>1. Answered(p, "list", "true") /\ UNCHANGED <<helper, about>>
    BY <1>3 DEF ChooseUnspent
  <2>2. Gives(p, Value(p)) /\ pc[p] = "list"
    BY <1>b, <2>1, TrueAnswerFits
  <2>3. CASE Goto(p, "thrown") /\ UNCHANGED unspent
    <3>1. ChosenInStep(p)'
      BY <1>a, <2>3 DEF ChosenInStep
    <3> QED
      BY <1>0, <2>1, <2>3, <3>1, ReadFits DEF Steps
  <2>4. ASSUME NEW output \in Outputs(p), Suits(p, output),
               unspent' = [unspent EXCEPT ![p] = [id |-> output.id, qty |-> Qty(output, Asset)]],
               Goto(p, "lock")
        PROVE  ChosenInv'
    <3>1. output \in Output /\ output.address = Address
      BY <2>2, <2>4 DEF Gives, Outputs
    <3>2. unspent'[p] = [id |-> output.id, qty |-> Qty(output, Asset)]
      BY <2>4 DEF ChosenInv
    <3>3. unspent'[p].id = output.id /\ unspent'[p].qty = Qty(output, Asset)
      BY <3>2
    <3>4. Suited(p)'
      BY <1>c, <2>4, <3>1, <3>3 DEF Suited, Suits
    <3>5. ChosenInStep(p)'
      BY <1>0, <1>a, <2>1, <2>2, <2>4, <3>4 DEF Fits, ChosenInStep
    <3> QED
      BY <1>0, <2>1, <2>4, <3>5, ReadFits DEF Steps
  <2> QED
    BY <1>3, <2>3, <2>4 DEF ChooseUnspent
<1>4. CASE NoListing(p)
  <2>1. PICK step \in {"lock", "terminated"} : Goto(p, step)
    BY <1>4 DEF NoListing
  <2>2. Answered(p, "list", "false") /\ UNCHANGED <<unspent, about, helper>>
    BY <1>4 DEF NoListing, chosen
  <2>3. unspent'[p].id = "" /\ about'[p] = ""
    <3>1. unspent[p] = NoUnspent /\ about[p] = ""
      BY <1>0, <1>b, <2>2 DEF Fits, ChosenInStep
    <3>2. NoUnspent.id = ""
      BY DEF NoUnspent
    <3> QED
      BY <2>2, <3>1, <3>2
  <2>4. ChosenInStep(p)'
    BY <1>a, <2>1, <2>3 DEF ChosenInStep
  <2> QED
    BY <1>0, <2>1, <2>2, <2>4, ReadFits DEF Steps
<1>5. CASE Lock(p)
  <2>1. Answered(p, "lock", "true") /\ Goto(p, "unlock") /\ UNCHANGED <<unspent, about, helper>>
    BY <1>5 DEF Lock, chosen
  <2>2. unspent[p].id \in Id /\ pc[p] = "lock"
    BY <1>b, <2>1, TrueAnswerFits DEF Gives
  <2>3. Suited(p)
    BY <1>0, <2>2, WalletAssumption DEF Fits, ChosenInStep
  <2>4. Suited(p)'
    BY <2>1, <2>3 DEF Suited
  <2>5. ChosenInStep(p)'
    BY <1>0, <1>a, <2>1, <2>2, <2>4 DEF Fits, ChosenInStep
  <2> QED
    BY <1>0, <2>1, <2>5, ReadFits DEF Steps
<1>6. CASE Unlock(p)
  <2>1. Answered(p, "unlock", "true") /\ Goto(p, "which") /\ UNCHANGED <<unspent, about, helper>>
    BY <1>6 DEF Unlock, chosen
  <2>2. ChosenInStep(p)'
    BY <1>0, <1>a, <1>b, <2>1 DEF Fits, ChosenInStep, Suited
  <2> QED
    BY <1>0, <2>1, <2>2, ReadFits DEF Steps
<1>7. CASE NotLocked(p)
  <2>1. PICK at \in Steps : Answered(p, at, "false")
    BY <1>7 DEF NotLocked, Steps
  <2>2. Goto(p, "terminated") /\ UNCHANGED <<unspent, about, helper>>
    BY <1>7 DEF NotLocked, chosen
  <2>3. ChosenInStep(p)'
    BY <1>a, <2>2 DEF ChosenInStep
  <2>4. /\ unspent' = [unspent EXCEPT ![p] = unspent[p]]
        /\ about' = [about EXCEPT ![p] = about[p]]
        /\ helper' = [helper EXCEPT ![p] = helper[p]] /\ helper[p] \in BOOLEAN
    BY <1>0, <2>2
  <2> QED
    BY <2>1, <2>2, <2>3, <2>4, ReadFits
<1>8. CASE ChooseKind(p)
  <2>1. /\ Answered(p, "which", "true") /\ Goto(p, "build") /\ UNCHANGED <<unspent, helper>>
        /\ about' = [about EXCEPT ![p] = Value(p).names[1]]
    BY <1>8 DEF ChooseKind
  <2>2. Value(p).names[1] = Right(p) /\ pc[p] = "which"
    BY <1>b, <2>1, TrueAnswerFits DEF Gives
  <2>3. about'[p] = Right(p)
    BY <2>1, <2>2 DEF ChosenInv
  <2>4. ChosenInStep(p)'
    BY <1>0, <1>a, <2>1, <2>2, <2>3 DEF Fits, ChosenInStep, Suited, Right
  <2> QED
    BY <1>0, <2>1, <2>4, ReadFits DEF Steps
<1>9. CASE NoKind(p)
  <2>1. PICK step \in {"build", "terminated"} :
          Goto(p, step) /\ (step = "build" => Kind(p) = "publish")
    BY <1>9 DEF NoKind
  <2>2. Answered(p, "which", "false") /\ UNCHANGED <<unspent, about, helper>>
    BY <1>9 DEF NoKind, chosen
  <2>3. ChosenInStep(p)'
    BY <1>0, <1>a, <1>b, <2>1, <2>2 DEF Fits, ChosenInStep, Suited
  <2> QED
    BY <1>0, <2>1, <2>2, <2>3, ReadFits DEF Steps
<1>10. CASE Sent(p)
  <2>1. PICK end, step :
          /\ Answered(p, "send", end) /\ Goto(p, step)
          /\ <<end, step>> \in {<<"true", "made">>, <<"false", "refused">>, <<"thrown", "unsure">>}
    BY <1>10 DEF Sent
  <2>2. UNCHANGED <<unspent, about, helper>>
    BY <1>10 DEF Sent, chosen
  <2>3. ChosenInStep(p)'
    BY <1>0, <1>a, <1>b, <2>1, <2>2 DEF Fits, ChosenInStep, Suited, Right
  <2> QED
    BY ZenonT(30), <1>0, <2>1, <2>2, <2>3, ReadFits DEF Steps
<1>11. CASE Begin(p) \/ Build(p)
  <2>1. /\ pc[p] \in {"idle", "build"} /\ UNCHANGED <<unspent, helper, requests, bytes>>
        /\ \E step \in {"params", "send", "crashed"} :
             /\ Goto(p, step)
             /\ step = "params" => pc[p] = "idle"
             /\ step # "params" => pc[p] = "build"
             /\ \/ UNCHANGED about /\ (step = "send" => about[p] # "")
                \/ about[p] = "" /\ about' = [about EXCEPT ![p] = "unknown"] /\ step = "send"
    BY <1>11 DEF Begin, Build, chosen, wire
  <2>2. PICK step \in {"params", "send", "crashed"} :
             /\ Goto(p, step)
             /\ step = "params" => pc[p] = "idle"
             /\ step # "params" => pc[p] = "build"
             /\ \/ UNCHANGED about /\ (step = "send" => about[p] # "")
                \/ about[p] = "" /\ about' = [about EXCEPT ![p] = "unknown"] /\ step = "send"
    BY <2>1
  <2>3. requests[p] = {} /\ bytes[p] = {}
    BY <2>1 DEF IInv, Good, WaitsInStep, Steps
  <2>4. PICK name : about' = [about EXCEPT ![p] = name]
    BY <1>0, <2>2
  <2>5. \/ about'[p] = about[p] /\ (step = "send" => about[p] # "")
        \/ about[p] = "" /\ about'[p] = "unknown" /\ step = "send"
    BY <2>2 DEF ChosenInv
  <2>6. pc'[p] = step /\ unspent'[p] = unspent[p] /\ requests'[p] = {} /\ bytes'[p] = {}
    BY <1>a, <2>1, <2>2, <2>3
  <2>7. Suited(p)' <=> Suited(p)
    BY <2>6 DEF Suited
  <2>8. ChosenInStep(p)'
    <3>1. CASE step = "params"
      BY <1>0, <2>2, <2>5, <2>6, <3>1 DEF Fits, ChosenInStep
    <3>2. CASE step = "send"
      <4>1. about'[p] = Right(p) \/ (Kind(p) = "publish" /\ about'[p] = "unknown")
        BY <1>0, <2>2, <2>5, <3>2, WalletAssumption DEF Fits, ChosenInStep, Right
      <4>2. Suited(p)'
        BY <1>0, <2>2, <2>7, <3>2 DEF Fits, ChosenInStep
      <4> QED
        BY <2>6, <3>2, <4>1, <4>2 DEF ChosenInStep, Right
    <3>3. CASE step = "crashed"
      BY <2>6, <3>3 DEF ChosenInStep
    <3> QED
      BY <3>1, <3>2, <3>3
  <2>9. Fits(p)'
    BY <2>6, <2>8 DEF Fits, AsksForItsStep, AnswersFit
  <2>10. /\ requests' = [requests EXCEPT ![p] = requests[p]] /\ bytes' = [bytes EXCEPT ![p] = bytes[p]]
         /\ pc' = [pc EXCEPT ![p] = step]
         /\ unspent' = [unspent EXCEPT ![p] = unspent[p]]
         /\ helper' = [helper EXCEPT ![p] = helper[p]]
    BY <1>0, <2>1, <2>2 DEF IInv, Functions, Goto
  <2> QED
    BY <1>0, <2>4, <2>9, <2>10, StepFits
<1>12. CASE Call(p)
  <2>1. /\ requests' = [requests EXCEPT ![p] = {RequestOf(p)}] /\ pc[p] \in Steps /\ ~waiting[p]
        /\ UNCHANGED <<pc, unspent, about, helper, bytes>>
    BY <1>12 DEF Call, chosen
  <2>2. requests'[p] = {RequestOf(p)} /\ RequestOf(p)' = RequestOf(p) /\ bytes'[p] = {}
    BY <2>1 DEF IInv, Functions, RequestOf, Good, WaitsInStep
  <2>3. AsksForItsStep(p)'
    BY <2>1, <2>2 DEF AsksForItsStep, Steps
  <2>4. ChosenInStep(p)'
    BY <1>0, <2>1 DEF Fits, ChosenInStep, Suited
  <2>5. Fits(p)'
    BY <2>2, <2>3, <2>4 DEF Fits, AnswersFit
  <2>6. /\ bytes' = [bytes EXCEPT ![p] = bytes[p]]
        /\ pc' = [pc EXCEPT ![p] = pc[p]]
        /\ unspent' = [unspent EXCEPT ![p] = unspent[p]]
        /\ about' = [about EXCEPT ![p] = about[p]]
        /\ helper' = [helper EXCEPT ![p] = helper[p]]
    BY <1>0, <2>1 DEF IInv, Functions
  <2>7. requests' = [requests EXCEPT ![p] = {RequestOf(p)}]
    BY <2>1
  <2> QED
    BY <1>0, <2>5, <2>6, <2>7, StepFits
<1> QED
  BY <1>1, <1>2, <1>3, <1>4, <1>5, <1>6, <1>7, <1>8, <1>9, <1>10, <1>11, <1>12 DEF Part
(* A connection that is lost gives nothing.                                 *)
LEMMA LossFits ==
  ASSUME IInv, ChosenInv, NEW p \in Payment, CannotConnect(p) \/ LoseConnection(p)
  PROVE  ChosenInv'
<1>1. bytes' = [bytes EXCEPT ![p] = {NoBytes}] /\ UNCHANGED <<pc, unspent, about, helper, requests>>
  BY DEF CannotConnect, LoseConnection, chosen
<1>2. /\ pc' = [pc EXCEPT ![p] = pc[p]] /\ requests' = [requests EXCEPT ![p] = requests[p]]
      /\ unspent' = [unspent EXCEPT ![p] = unspent[p]]
      /\ about' = [about EXCEPT ![p] = about[p]]
      /\ helper' = [helper EXCEPT ![p] = helper[p]] /\ helper[p] \in BOOLEAN
  BY <1>1 DEF IInv, Functions, ChosenInv
<1>3. bytes'[p] = {NoBytes} /\ Fits(p)
  BY <1>1 DEF IInv, Functions, ChosenInv
<1>4. AnswersFit(p)'
  BY <1>3, NoBytesThrow DEF AnswersFit, Answers
<1>5. RequestOf(p)' = RequestOf(p)
  BY <1>1 DEF RequestOf
<1>6. AsksForItsStep(p)'
  BY <1>1, <1>3, <1>5 DEF Fits, AsksForItsStep
<1>7. ChosenInStep(p)'
  BY <1>1, <1>3 DEF Fits, ChosenInStep, Suited
<1>8. Fits(p)'
  BY <1>4, <1>6, <1>7 DEF Fits
<1>9. bytes' = [bytes EXCEPT ![p] = {NoBytes}]
  BY <1>1
<1> QED
  BY <1>2, <1>8, <1>9, StepFits

(* What a node answers: errors are whole, results have what was asked for.  *)
LEMMA ErrorAnswers ==
  ASSUME NEW p, NEW code \in {WarmUp, Invalid, MissingInputs}
  PROVE  Answers(p, Whole(HTTP_INTERNAL_SERVER_ERROR, Error(code)))
<1> DEFINE b == Whole(HTTP_INTERNAL_SERVER_ERROR, Error(code))
<1>1. rpcResult(b).end = "false"
  BY ErrorIsFalse
<1>2. b.arrived = Size /\ b.body = Error(code) /\ b.status = HTTP_INTERNAL_SERVER_ERROR
  BY DEF Whole, Bytes
<1>3. Error(code).kind = "object" /\ Error(code).error # NoError
  BY DEF Error, NoError, WarmUp, Invalid, MissingInputs
<1> HIDE DEF b
<1>4. WholeAnswer(b) /\ b.body.error # NoError
  BY <1>2, <1>3 DEF WholeAnswer
<1> QED
  BY <1>1, <1>4 DEF Answers, b

LEMMA ResultAnswers ==
  ASSUME NEW p, NEW value, Gives(p, value)
  PROVE  Answers(p, Whole(HTTP_OK, Result(value)))
<1> DEFINE b == Whole(HTTP_OK, Result(value))
<1>1. ReadHTTPMessage(b) = Result(value) /\ ReadHTTPStatus(b) = 200
  BY DEF Whole, Bytes, Size, ReadHTTPMessage, ReadHTTPStatus, HTTP_OK, NoStatus
<1>2. CallRPC(b) = Told("returned", Result(value))
  BY <1>1 DEF CallRPC, Unusable, Result, HTTP_UNAUTHORIZED
<1>3. rpcResult(b) = Told("true", value)
  BY <1>2 DEF rpcResult, result, Told, ErrorOf, Result, NoError
<1>4. rpcResult(b).end = "true" /\ rpcResult(b).value = value
  BY <1>3 DEF Told
<1>5. b.arrived = Size /\ b.body.kind = "object" /\ b.status = HTTP_OK
  BY DEF Whole, Bytes, Result
<1> HIDE DEF b
<1> QED
  BY <1>4, <1>5 DEF Answers, WholeAnswer, b

(* A reply that comes fits when the whole of it would.                      *)
LEMMA ReplyFits ==
  ASSUME IInv, ChosenInv, NEW p \in Payment, NEW b, Answers(p, b) \/ ~Live(p),
         requests' = [requests EXCEPT ![p] = {}],
         bytes' = IF Live(p) THEN [bytes EXCEPT ![p] = {b}] ELSE bytes,
         UNCHANGED <<pc, unspent, about, helper>>
  PROVE  ChosenInv'
<1>1. /\ pc' = [pc EXCEPT ![p] = pc[p]]
      /\ unspent' = [unspent EXCEPT ![p] = unspent[p]]
      /\ about' = [about EXCEPT ![p] = about[p]]
      /\ helper' = [helper EXCEPT ![p] = helper[p]] /\ helper[p] \in BOOLEAN
      /\ requests'[p] = {} /\ Fits(p)
  BY DEF IInv, Functions, ChosenInv
<1>2. PICK reply : bytes' = [bytes EXCEPT ![p] = reply] /\ (reply = bytes[p] \/ (Live(p) /\ reply = {b}))
  <2>1. bytes = [bytes EXCEPT ![p] = bytes[p]]
    BY DEF IInv, Functions
  <2> QED
    BY <2>1
<1>3. bytes'[p] = reply
  BY <1>2 DEF IInv, Functions
<1>4. \A x : Answers(p, x) => Answers(p, x)'
  BY DEF Answers, Gives
<1>5. AnswersFit(p)'
  BY <1>1, <1>2, <1>3, <1>4 DEF Fits, AnswersFit
<1>6. AsksForItsStep(p)' /\ ChosenInStep(p)'
  BY <1>1 DEF Fits, AsksForItsStep, ChosenInStep, Suited
<1>7. Fits(p)'
  BY <1>5, <1>6 DEF Fits
<1>8. /\ pc' = [pc EXCEPT ![p] = pc[p]]
      /\ requests' = [requests EXCEPT ![p] = {}]
      /\ bytes' = [bytes EXCEPT ![p] = reply]
      /\ unspent' = [unspent EXCEPT ![p] = unspent[p]]
      /\ about' = [about EXCEPT ![p] = about[p]]
      /\ helper' = [helper EXCEPT ![p] = helper[p]] /\ helper[p] \in BOOLEAN
  BY <1>1, <1>2
<1> QED
  BY ONLY IInv, ChosenInv, p \in Payment, <1>7, <1>8, StepFits

LEMMA RepliedFits ==
  ASSUME IInv, ChosenInv, NEW p \in Payment, NEW status, NEW body,
         Reply(p, status, body), Live(p) => Answers(p, Whole(status, body))
  PROVE  ChosenInv'
<1>1. requests' = [requests EXCEPT ![p] = {}] /\ UNCHANGED <<pc, unspent, about, helper>>
  BY DEF Reply, chosen
<1>2. CASE Live(p)
  <2>1. PICK b \in {Whole(status, body), Cut(status, body)} : bytes' = [bytes EXCEPT ![p] = {b}]
    BY <1>2 DEF Reply
  <2>2. Answers(p, b)
    BY <1>2, <2>1, CutThrows DEF Answers
  <2> QED
    BY <1>1, <1>2, <2>1, <2>2, ReplyFits
<1>3. CASE ~Live(p)
  <2>1. bytes' = bytes
    BY <1>3 DEF Reply
  <2> QED
    BY <1>1, <1>3, <2>1, ReplyFits
<1> QED
  BY <1>2, <1>3
(* Only one thing is asked, and while it is waited for it is what the step  *)
(* needs.                                                                   *)
LEMMA OneRequest ==
  ASSUME IInv, NEW p \in Payment, NEW r \in requests[p]
  PROVE  requests[p] = {r} /\ (CHOOSE x \in requests[p] : TRUE) = r
<1>1. requests[p] = {r}
  BY DEF IInv, Good, WaitsInStep
<1> QED
  BY <1>1

LEMMA LiveRequest ==
  ASSUME IInv, ChosenInv, NEW p \in Payment, NEW r \in requests[p], Live(p)
  PROVE  pc[p] \in Steps /\ r = RequestOf(p)
BY DEF IInv, ChosenInv, Good, WaitsInStep, Fits, AsksForItsStep, Live

LEMMA NodeFits == ASSUME IInv, ChosenInv, NEW p \in Payment, Node(p) PROVE ChosenInv'
<1>1. CASE NodeTellsParams(p)
  <2>1. Reply(p, HTTP_OK, Result(Null))
    BY <1>1 DEF NodeTellsParams, ReplyResult
  <2>2. PICK r \in requests[p] : r.method = "getblockchainparams"
    BY <1>1 DEF NodeTellsParams, Asked
  <2>3. ASSUME Live(p) PROVE Gives(p, Null)
    <3>1. pc[p] \in Steps /\ r = RequestOf(p)
      BY <2>3, LiveRequest
    <3>2. pc[p] \notin {"list", "lock", "which"}
      BY <2>2, <3>1 DEF RequestOf, listunspentOf, listunspent, lockunspent, liststreams, listassets, Request
    <3> QED
      BY <3>2 DEF Gives
  <2> QED
    BY <2>1, <2>3, ResultAnswers, RepliedFits
<1>2. CASE NodeLists(p)
  <2> DEFINE value == [Null EXCEPT !.outputs = Listing(Params(p))]
  <2>1. Reply(p, HTTP_OK, Result(value))
    BY <1>2 DEF NodeLists, ReplyResult
  <2>2. PICK r \in requests[p] : r.method = "listunspent"
    BY <1>2 DEF NodeLists, Asked
  <2>3. ASSUME Live(p) PROVE Gives(p, value)
    <3>1. pc[p] \in Steps /\ r = RequestOf(p)
      BY <2>3, LiveRequest
    <3>2. pc[p] = "list"
      BY <2>2, <3>1 DEF RequestOf, getblockchainparams, lockunspent, liststreams, listassets, sendrawtx,
                        Request, Steps
    <3>3. r = Request("listunspent", <<1, MaxConf, <<Address>>>>)
      BY <3>1, <3>2 DEF RequestOf, listunspentOf, listunspent
    <3>4. Params(p) = <<1, MaxConf, <<Address>>>>
      BY <3>3, OneRequest DEF Params, Request
    <3>5. ToSet(<<Address>>) = {Address}
      BY DEF ToSet
    <3>6. Len(Params(p)) = 3 /\ Params(p)[3] = <<Address>>
      BY <3>4
    <3>7. \A output \in Listing(Params(p)) : output \in Output /\ output.address = Address
      BY <3>5, <3>6 DEF Listing, Listed
    <3>8. value.outputs = Listing(Params(p))
      BY DEF Null
    <3> QED
      BY <3>2, <3>7, <3>8 DEF Gives
  <2> HIDE DEF value
  <2> QED
    BY <2>1, <2>3, ResultAnswers, RepliedFits
<1>3. CASE NodeLocks(p)
  <2>1. PICK r \in requests[p] : r.method = "lockunspent"
    BY <1>3 DEF NodeLocks, Asked
  <2>2. CASE Param(p, 2)[1] \notin Id
    <3>1. Reply(p, HTTP_INTERNAL_SERVER_ERROR, Error(Invalid))
      BY <1>3, <2>2 DEF NodeLocks, ReplyError
    <3> QED
      BY <3>1, ErrorAnswers, RepliedFits
  <2>3. CASE Param(p, 2)[1] \in Id
    <3>1. Reply(p, HTTP_OK, Result(Null))
      BY <1>3, <2>3 DEF NodeLocks, ReplyResult
    <3>2. ASSUME Live(p) PROVE Gives(p, Null)
      <4>1. pc[p] \in Steps /\ r = RequestOf(p)
        BY <3>2, LiveRequest
      <4>2. pc[p] \in {"lock", "unlock"}
        BY <2>1, <4>1 DEF RequestOf, getblockchainparams, listunspentOf, listunspent, liststreams,
                          listassets, sendrawtx, Request, Steps
      <4>3. r = Request("lockunspent", <<pc[p] = "unlock", <<unspent[p].id>>>>)
        BY <4>1, <4>2 DEF RequestOf, lockunspent
      <4>4. Param(p, 2) = <<unspent[p].id>>
        BY <4>3, OneRequest DEF Param, Request
      <4>5. unspent[p].id \in Id
        BY <2>3, <4>4
      <4> QED
        BY <4>2, <4>5 DEF Gives
    <3> QED
      BY <3>1, <3>2, ResultAnswers, RepliedFits
  <2> QED
    BY <2>2, <2>3
<1>4. CASE NodeNames(p)
  <2> DEFINE value == [Null EXCEPT !.names = Named(Param(p, 1))]
  <2>1. Reply(p, HTTP_OK, Result(value))
    BY <1>4 DEF NodeNames, ReplyResult
  <2>2. PICK r \in requests[p] : r.method \in {"liststreams", "listassets"}
    BY <1>4 DEF NodeNames, Asked
  <2>3. ASSUME Live(p) PROVE Gives(p, value)
    <3>1. pc[p] \in Steps /\ r = RequestOf(p)
      BY <2>3, LiveRequest
    <3>2. pc[p] = "which"
      BY <2>2, <3>1 DEF RequestOf, getblockchainparams, listunspentOf, listunspent, lockunspent,
                        sendrawtx, Request, Steps
    <3>3. r.params = <<<<Right(p)>>>>
      BY <3>1, <3>2, WalletAssumption
         DEF RequestOf, liststreams, listassets, Right, Request
    <3>4. Param(p, 1) = <<Right(p)>>
      BY <3>3, OneRequest DEF Param
    <3>5. Named(<<Right(p)>>) = <<Right(p)>>
      BY DEF Named
    <3>6. value.names[1] = Right(p)
      BY <3>4, <3>5 DEF Null
    <3> QED
      BY <3>2, <3>6 DEF Gives
  <2> HIDE DEF value
  <2> QED
    BY <2>1, <2>3, ResultAnswers, RepliedFits
<1>5. CASE NodeSpends(p)
  <2>1. PICK r \in requests[p] : r.method = "sendrawtx"
    BY <1>5 DEF NodeSpends, Asked
  <2>2. ASSUME Live(p) PROVE Gives(p, Null)
    <3>1. pc[p] \in Steps /\ r = RequestOf(p)
      BY <2>2, LiveRequest
    <3>2. pc[p] \notin {"list", "lock", "which"}
      BY <2>1, <3>1 DEF RequestOf, listunspentOf, listunspent, lockunspent, liststreams, listassets, Request
    <3> QED
      BY <3>2 DEF Gives
  <2>3. Reply(p, HTTP_OK, Result(Null)) \/ Reply(p, HTTP_INTERNAL_SERVER_ERROR, Error(MissingInputs))
    BY <1>5 DEF NodeSpends, ReplyResult, ReplyError
  <2> QED
    BY <2>2, <2>3, ResultAnswers, ErrorAnswers, RepliedFits
<1>6. CASE NodeRefuses(p)
  BY <1>6, ErrorAnswers, RepliedFits DEF NodeRefuses, ReplyError
<1>7. CASE NodeFails(p)
  <2>1. PICK b \in NoAnswer(p) : bytes' = IF Live(p) THEN [bytes EXCEPT ![p] = {b}] ELSE bytes
    BY <1>7 DEF NodeFails
  <2>2. Answers(p, b)
    BY <2>1, NoAnswerThrows DEF Answers
  <2>3. requests' = [requests EXCEPT ![p] = {}] /\ UNCHANGED <<pc, unspent, about, helper>>
    BY <1>7 DEF NodeFails, chosen
  <2> QED
    BY <2>1, <2>2, <2>3, ReplyFits
<1> QED
  BY <1>1, <1>2, <1>3, <1>4, <1>5, <1>6, <1>7 DEF Node

LEMMA InitFits == Init => ChosenInv
<1> SUFFICES ASSUME Init PROVE ChosenInv
  OBVIOUS
<1>1. /\ unspent = [p \in Payment |-> unspent[p]] /\ DOMAIN unspent = Payment
      /\ about = [p \in Payment |-> about[p]] /\ DOMAIN about = Payment
      /\ helper \in [Payment -> BOOLEAN]
  BY DEF Init
<1>2. ASSUME NEW p \in Payment PROVE Fits(p)
  <2>1. /\ pc[p] \in {"none", "idle", "params"} /\ unspent[p] = NoUnspent /\ about[p] = ""
        /\ requests[p] = {} /\ bytes[p] = {}
    BY DEF Init
  <2> QED
    BY <2>1 DEF Fits, ChosenInStep, AsksForItsStep, AnswersFit
<1> QED
  BY <1>1, <1>2 DEF ChosenInv

LEMMA NextFits == ASSUME IInv, ChosenInv, [Next]_vars PROVE ChosenInv'
<1>1. CASE UNCHANGED vars
  <2>1. UNCHANGED <<pc, unspent, about, helper, requests, bytes>>
    BY <1>1 DEF vars, chosen, wire
  <2>2. \A p \in Payment : Fits(p)'
    BY <2>1, OthersFit DEF ChosenInv
  <2> QED
    BY <2>1, <2>2 DEF ChosenInv
<1> QED
  BY <1>1, PartFits, LossFits, NodeFits DEF Next

THEOREM ChosenInvariant == Spec => [](IInv /\ ChosenInv)
BY InitFits, NextFits, InductiveInvariant, PTL DEF Spec
-----------------------------------------------------------------------------
LEMMA ChosenIsAcceptable == ASSUME IInv, ChosenInv PROVE SentIsAcceptable
<1> SUFFICES ASSUME NEW p \in Payment, Asked(p, "sendrawtx")
             PROVE  LET tx == Param(p, 1)
                    IN  /\ \E output \in Output :
                             /\ output.id = tx.spends.id /\ output.address = Address
                             /\ Qty(output, Asset) = tx.spends.qty
                             /\ IF Kind(p) = "pay" THEN Holds(output, Asset)
                                                   ELSE output.assets = <<>>
                        /\ spentBy[tx.spends.id] # p
                        /\ \/ tx.about = (IF Kind(p) = "publish" THEN Stream ELSE Asset)
                           \/ Kind(p) = "publish" /\ tx.about = "unknown"
  BY DEF SentIsAcceptable
<1>1. pc[p] \in {"send", "unsure"} /\ ~Made(p) /\ Fits(p)
  BY DEF IInv, Good, SendsOnce, Sending, ChosenInv
<1>2. PICK r \in requests[p] : TRUE
  BY DEF Asked
<1>3. r = sendrawtx([spends |-> unspent[p], about |-> about[p]])
  BY <1>1, <1>2 DEF Fits, AsksForItsStep, Steps, RequestOf
<1>4. Param(p, 1) = [spends |-> unspent[p], about |-> about[p]]
  BY <1>2, <1>3, OneRequest DEF Param, sendrawtx, Request
<1>5. Param(p, 1).spends = unspent[p] /\ Param(p, 1).about = about[p]
  BY <1>4
<1>6. Suited(p) /\ (about[p] = Right(p) \/ (Kind(p) = "publish" /\ about[p] = "unknown"))
  BY <1>1 DEF Fits, ChosenInStep
<1>7. unspent[p].id \in Id
  BY <1>6 DEF Suited, Id
<1>8. spentBy[unspent[p].id] # p
  BY <1>1, <1>7 DEF Made
<1> QED
  BY <1>5, <1>6, <1>8 DEF Suited, Right

(* What is sent, and also what is still on its way after its session has    *)
(* given up, spends an output of the address that would do, with all that   *)
(* it holds, for any sessions, outputs and orders of the listing            *)
(* (main.cpp:83-134, 190-277).                                              *)
THEOREM WhatIsSentIsAcceptable == Spec => []SentIsAcceptable
BY ChosenInvariant, ChosenIsAcceptable, PTL

(* A step that leads on has read a whole answer.                            *)
Follows ==
  \A p \in Payment :
    pc[p] \in Steps /\ pc'[p] \notin {pc[p], "thrown", "unsure"} =>
      \E b \in bytes[p] :
        /\ WholeAnswer(b)
        /\ \/ b.body.error # NoError
           \/ /\ pc'[p] = "list" => helper'[p]
              /\ pc'[p] = "lock" => unspent'[p].id \in Id
              /\ pc'[p] = "build" => about'[p] # ""

LEMMA AnsweredIsWhole ==
  ASSUME ChosenInv, NEW p \in Payment, NEW at, NEW end \in {"true", "false"}, Answered(p, at, end)
  PROVE  \E b \in bytes[p] : WholeAnswer(b) /\ (end = "false" => b.body.error # NoError)
<1>1. PICK b \in bytes[p] : rpcResult(b).end = end
  BY DEF Answered
<1> QED
  BY <1>1 DEF ChosenInv, Fits, AnswersFit, Answers

LEMMA PartFollows ==
  ASSUME IInv, ChosenInv, NEW p \in Payment, Part(p),
         pc[p] \in Steps, pc'[p] \notin {pc[p], "thrown", "unsure"}
  PROVE  \E b \in bytes[p] :
           /\ WholeAnswer(b)
           /\ \/ b.body.error # NoError
              \/ /\ pc'[p] = "list" => helper'[p]
                 /\ pc'[p] = "lock" => unspent'[p].id \in Id
                 /\ pc'[p] = "build" => about'[p] # ""
<1>1. ASSUME NEW at, Answered(p, at, "false")
      PROVE  \E b \in bytes[p] : WholeAnswer(b) /\ b.body.error # NoError
  BY <1>1, AnsweredIsWhole
<1>2. ASSUME NEW at, Answered(p, at, "true")
      PROVE  \E b \in bytes[p] : WholeAnswer(b)
  BY <1>2, AnsweredIsWhole
<1>3. ASSUME NEW step, Goto(p, step) PROVE pc'[p] = step
  BY <1>3 DEF IInv, Functions, Goto
<1>4. CASE MakeHelper(p)
  <2>1. PICK end \in {"true", "false"} :
          /\ Answered(p, "params", end)
          /\ helper' = [helper EXCEPT ![p] = (end = "true")]
    BY <1>4 DEF MakeHelper
  <2>2. pc'[p] = "list"
    BY <1>3, <1>4 DEF MakeHelper
  <2>3. CASE end = "false"
    BY <1>1, <2>1, <2>3
  <2>4. CASE end = "true"
    <3>1. helper' = [helper EXCEPT ![p] = TRUE]
      BY <2>1, <2>4
    <3>2. helper'[p]
      BY <3>1, Zenon DEF ChosenInv
    <3> QED
      BY <1>2, <2>1, <2>2, <2>4, <3>2
  <2> QED
    BY <2>1, <2>3, <2>4
<1>5. CASE ChooseUnspent(p)
  <2>1. Answered(p, "list", "true") /\ pc'[p] \in {"thrown", "lock"}
    BY <1>3, <1>5 DEF ChooseUnspent
  <2>2. Gives(p, Value(p)) /\ pc[p] = "list"
    BY <2>1, TrueAnswerFits DEF Answered
  <2>3. PICK output \in Outputs(p) :
          unspent' = [unspent EXCEPT ![p] = [id |-> output.id, qty |-> Qty(output, Asset)]]
    BY <1>3, <1>5, <2>1 DEF ChooseUnspent
  <2>4. output \in Output
    BY <2>2, <2>3 DEF Gives, Outputs
  <2>5. unspent'[p].id = output.id
    BY <2>3 DEF ChosenInv
  <2>6. unspent'[p].id \in Id
    BY <2>4, <2>5 DEF Id
  <2> QED
    BY <1>2, <2>1, <2>6
<1>6. CASE ChooseKind(p)
  <2>1. Answered(p, "which", "true") /\ about' = [about EXCEPT ![p] = Value(p).names[1]]
    BY <1>6 DEF ChooseKind
  <2>2. Value(p).names[1] = Right(p)
    BY <2>1, TrueAnswerFits DEF Gives, Answered
  <2>3. about'[p] # ""
    BY <2>1, <2>2, WalletAssumption DEF ChosenInv, Right
  <2>4. pc'[p] = "build"
    BY <1>3, <1>6 DEF ChooseKind
  <2> QED
    BY <1>2, <2>1, <2>3, <2>4
<1>7. CASE NoListing(p) \/ NotLocked(p) \/ NoKind(p)
  <2>1. \E at : Answered(p, at, "false")
    BY <1>7 DEF NoListing, NotLocked, NoKind
  <2> QED
    BY <1>1, <2>1
<1>8. CASE Lock(p) \/ Unlock(p)
  <2>1. \E at : Answered(p, at, "true")
    BY <1>8 DEF Lock, Unlock
  <2>2. pc'[p] \in {"unlock", "which"}
    BY <1>3, <1>8 DEF Lock, Unlock
  <2> QED
    BY <1>2, <2>1, <2>2
<1>9. CASE Sent(p)
  <2>1. PICK end, step :
          /\ Answered(p, "send", end) /\ Goto(p, step)
          /\ <<end, step>> \in {<<"true", "made">>, <<"false", "refused">>, <<"thrown", "unsure">>}
    BY <1>9 DEF Sent
  <2>2. pc'[p] = step
    BY <1>3, <2>1
  <2> QED
    BY <1>1, <1>2, <2>1, <2>2
<1>10. ~Begin(p) /\ ~Call(p) /\ ~Throw(p) /\ ~Build(p)
  BY <1>3 DEF Begin, Call, Throw, Build, Steps
<1> QED
  BY <1>4, <1>5, <1>6, <1>7, <1>8, <1>9, <1>10 DEF Part

LEMMA StepFollows == ASSUME IInv, ChosenInv, [Next]_vars PROVE Follows
<1> SUFFICES ASSUME NEW p \in Payment, pc[p] \in Steps, pc'[p] \notin {pc[p], "thrown", "unsure"}
             PROVE  \E b \in bytes[p] :
                      /\ WholeAnswer(b)
                      /\ \/ b.body.error # NoError
                         \/ /\ pc'[p] = "list" => helper'[p]
                            /\ pc'[p] = "lock" => unspent'[p].id \in Id
                            /\ pc'[p] = "build" => about'[p] # ""
  BY DEF Follows
<1>1. pc' # pc
  OBVIOUS
<1>2. PICK q \in Payment : Part(q)
  BY <1>1 DEF Next, vars, Node, NodeTellsParams, NodeLists, NodeLocks, NodeNames, NodeSpends, NodeRefuses,
         NodeFails, ReplyResult, ReplyError, Reply, CannotConnect, LoseConnection
<1>3. \E step : Goto(q, step) \/ pc' = pc
  BY <1>2, ReadingGoesOn DEF Part, Begin, Call, Build, Sent
<1>4. q = p
  BY <1>1, <1>3 DEF Goto, IInv, Functions
<1> QED
  BY <1>2, <1>4, PartFollows

(* No reply that is cut, lost or no answer leads a session on to its next   *)
(* step, and none without its helper, its output or its stream but an error *)
(* of the node (rpcprotocol.cpp:64-103, KeysHelperWithRpc.cpp:31-34).       *)
THEOREM WholeAnswersAreFollowed == Spec => FollowsWholeAnswers
<1>1. IInv /\ ChosenInv /\ [Next]_vars => [Follows]_vars
  BY StepFollows
<1>2. Spec => [][Follows]_vars
  BY <1>1, ChosenInvariant, PTL DEF Spec
<1> QED
  BY <1>2 DEF FollowsWholeAnswers, Follows
=============================================================================
