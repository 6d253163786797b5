------------------------------ MODULE RpcCall ------------------------------
(***************************************************************************)
(* One call of the node: the request a command of rpc/src/hs_rpc.cpp makes *)
(* of its arguments, and what the caller is told of the bytes that come    *)
(* back (rpcclient.cpp, rpcprotocol.cpp, rpccaller.cpp).  A call opens a   *)
(* connection of its own, waits without a time limit and is never retried. *)
(***************************************************************************)
EXTENDS Integers, Sequences

-----------------------------------------------------------------------------
(* Requests: the node knows a parameter by its position.                    *)
Request(method, params) == [method |-> method, params |-> params]

getblockchainparams == Request("getblockchainparams", <<>>)

MaxConf == 9999999

(* Parameters that keep their default are left out from the end only.       *)
listunspent(minConf, maxConf, addresses) ==
  Request("listunspent",
    CASE addresses # <<>>                                       -> <<minConf, maxConf, addresses>>
      [] addresses = <<>> /\ maxConf < MaxConf                  -> <<minConf, maxConf>>
      [] addresses = <<>> /\ maxConf >= MaxConf /\ minConf > 1  -> <<minConf>>
      [] addresses = <<>> /\ maxConf >= MaxConf /\ minConf <= 1 -> <<>>)

listunspentOf(address) == listunspent(1, MaxConf, <<address>>)

lockunspent(unlock, output) == Request("lockunspent", <<unlock, <<output>>>>)

liststreams(name) == Request("liststreams", <<<<name>>>>)

(* No name at all asks for every asset.                                     *)
listassets(name) == Request("listassets", <<IF name = "" THEN <<>> ELSE <<name>>>>)

sendrawtx(tx) == Request("sendrawtx", <<tx>>)

-----------------------------------------------------------------------------
(* Replies.  What arrives is a status line, or none; the length the header  *)
(* gives, 0 without one; how much of the body came before the connection    *)
(* closed; and the body: a JSON object with "error" and "result", or not.   *)
(* A result lists outputs or names; of any other nobody looks at the value. *)
NoStatus == 0
HTTP_OK == 200
HTTP_BAD_REQUEST == 400
HTTP_UNAUTHORIZED == 401
HTTP_NOT_FOUND == 404
HTTP_INTERNAL_SERVER_ERROR == 500

Null == [outputs |-> {}, names |-> <<>>]
NoError == 0      (* "error" is null: a code of 0 would count as none too   *)
NotJson == [kind |-> "text"]
EmptyObject == [kind |-> "object", error |-> NoError, result |-> Null, empty |-> TRUE]
Result(value) == [kind |-> "object", error |-> NoError, result |-> value, empty |-> FALSE]
Error(code) == [kind |-> "object", error |-> code, result |-> Null, empty |-> FALSE]
Nothing == [kind |-> "nothing"]

Size == 2
Bytes(status, length, arrived, body) ==
  [status |-> status, length |-> length, arrived |-> arrived, body |-> body]
Whole(status, body) == Bytes(status, Size, Size, body)
Cut(status, body) == Bytes(status, Size, Size - 1, body)
NoBytes == Bytes(NoStatus, 0, 0, Nothing)

ReadHTTPStatus(bytes) ==
  IF bytes.status = NoStatus THEN HTTP_INTERNAL_SERVER_ERROR ELSE bytes.status

(* Variant: what has come of a body that is cut is taken for the body.      *)
ReadHTTPMessage_Cut(bytes) == IF bytes.arrived = 0 THEN Nothing ELSE bytes.body

(* The message is empty without a length or when the body stops short.      *)
ReadHTTPMessage(bytes) ==
  IF bytes.length > 0 /\ bytes.arrived = bytes.length THEN bytes.body ELSE Nothing

(* What CallRPC ends with: it throws, or returns the object.                *)
Thrown == [end |-> "thrown", value |-> Null]
Told(end, value) == [end |-> end, value |-> value]

Unusable(status) ==
  \/ status = HTTP_UNAUTHORIZED
  \/ /\ status >= 400
     /\ status \notin {HTTP_BAD_REQUEST, HTTP_NOT_FOUND, HTTP_INTERNAL_SERVER_ERROR}

CallRPC(bytes) ==
  LET reply == ReadHTTPMessage(bytes)
  IN  IF Unusable(ReadHTTPStatus(bytes)) \/ reply.kind # "object" THEN Thrown
      ELSE IF reply.empty THEN Thrown
      ELSE Told("returned", reply)

(* error() of rpccaller.cpp: the return code, 0 for none.                   *)
ErrorOf(reply) == IF reply.error < 0 THEN -reply.error ELSE reply.error

result(reply) ==
  IF ErrorOf(reply) # 0 THEN Told("false", Null) ELSE Told("true", reply.result)

(* A command of hs_rpc.cpp and rpcResult around it, as every caller writes  *)
(* them: "true" with the result, "false" for an error of the node, or it    *)
(* throws.                                                                  *)
rpcResult(bytes) ==
  LET call == CallRPC(bytes)
  IN  IF call.end = "thrown" THEN Thrown ELSE result(call.value)
=============================================================================
