---------------------------- MODULE RawMetadata ----------------------------
(***************************************************************************)
(* ParseRawMetadata of keys/src/rawmetadata.cpp: from a JSON object, whose *)
(* fields are taken in the order they are written, to the OP_DROP and      *)
(* OP_RETURN script of a new asset, stream or upgrade, of more units of an *)
(* asset, or of an input cache.  One action per field name, one for the    *)
(* checks and the script at the end.                                       *)
(*                                                                         *)
(* ParseEntityIdentifier does not come back when it is given an            *)
(* identifier (it ends in an assertion: there is no entity database), so   *)
(* the new types of stream items and approvals (-1, -5) are never set.     *)
(* What a JSON value cannot be converted to is thrown out of the function. *)
(***************************************************************************)
EXTENDS Integers, Sequences, FiniteSets

CONSTANTS
  Masks,        (* sets of what the caller allows: allowed_objects          *)
  Text,         (* names, keys and values given as strings; "" is empty     *)
  Field,        (* custom fields of details                                 *)
  MaxDetails,   (* custom fields that fit: MC_ENT_MAX_SCRIPT_SIZE           *)
  MaxPairs      (* bound on the fields of an object                         *)

Permission == {"create", "publish", "issue", "follow-on", "details",
               "approval", "upgrade", "empty hex", "cache"}

ASSUME RawMetadataAssumption ==
  /\ Masks \subseteq SUBSET Permission
  /\ "" \in Text /\ "bad" \notin Text
  /\ MaxDetails \in Nat /\ MaxPairs \in Nat

VARIABLES
  allowed,      (* allowed_objects                                          *)
  hasEntity,    (* given_entity is one                                      *)
  given,        (* history: the fields taken so far                         *)
  custom,       (* history: the custom fields among them                    *)
  parsed,       (* the local variables                                      *)
  details,      (* lpDetails: the parameters in element 0                   *)
  failed,       (* strError is not empty                                    *)
  status,       (* "object", "string", "ok", "thrown"                       *)
  script        (* what is returned: the pieces, each dropped or returned   *)

vars == <<allowed, hasEntity, given, custom, parsed, details, failed, status, script>>

None == <<>>

Init ==
  /\ allowed \in Masks
  /\ hasEntity \in BOOLEAN
  /\ given = <<>>
  /\ custom = <<>>
  /\ parsed = [new_type |-> "none", entity_name |-> "", multiple |-> None,
               is_open |-> FALSE, open_is_set |-> FALSE, protocol_version |-> -1,
               startblock |-> None, approve |-> None, vKey |-> "", vValue |-> ""]
  /\ details = <<>>
  /\ failed = FALSE
  /\ status \in {"object", "string"}
  /\ script = <<>>

-----------------------------------------------------------------------------
May(permissions) == allowed \cap permissions # {}

(* Variant: a later field that is valid clears the error.                   *)
Take_NotSticky(name, value, error) ==
  /\ status = "object" /\ Len(given) < MaxPairs
  /\ given' = Append(given, <<name, value>>)
  /\ failed' = error
  /\ name # "details" => UNCHANGED custom
  /\ UNCHANGED <<allowed, hasEntity, status, script>>

(* A field is taken; an error stays.                                        *)
Take(name, value, error) ==
  /\ status = "object" /\ Len(given) < MaxPairs
  /\ given' = Append(given, <<name, value>>)
  /\ failed' = (failed \/ error)
  /\ name # "details" => UNCHANGED custom
  /\ UNCHANGED <<allowed, hasEntity, status, script>>

(* An exception leaves the function; what it allocated is not freed.        *)
Raise ==
  /\ status = "object" /\ Len(given) < MaxPairs
  /\ status' = "thrown"
  /\ UNCHANGED <<allowed, hasEntity, given, custom, parsed, details, failed, script>>

(* The cache takes the place of what lpDetails holds; an entry that is not  *)
(* an object raises.  After an error no entry is looked at.                 *)
InputCache ==
  \/ \E value \in {"empty", "entry", "bad"} :
       /\ Take("inputcache", value, value = "bad" \/ ~May({"cache"}))
       /\ parsed' = [parsed EXCEPT !.new_type = "cache"]
       /\ details' = IF ~May({"cache"}) THEN details
                     ELSE IF value = "entry" /\ ~failed THEN <<<<"cache", "header">>, <<"cache", "entry">>>>
                     ELSE <<<<"cache", "header">>>>
  \/ /\ Take("inputcache", "no array", TRUE)
     /\ parsed' = [parsed EXCEPT !.new_type = "cache"]
     /\ UNCHANGED details
  \/ May({"cache"}) /\ ~failed /\ Raise

Create ==
  \/ \E type \in {"stream", "asset", "upgrade"} :
       /\ Take("create", type,
               \/ parsed.new_type # "none"
               \/ ~May({CASE type = "stream"  -> "create"
                          [] type = "asset"   -> "issue"
                          [] type = "upgrade" -> "upgrade"}))
       /\ parsed' = [parsed EXCEPT !.new_type = type]
       /\ UNCHANGED details
  \/ Take("create", "bad", TRUE) /\ UNCHANGED <<parsed, details>>
  \/ Raise

(* Without an identifier no entity is found, and with one there is no way   *)
(* back.                                                                    *)
For ==
  \/ Take("for", "bad", TRUE) /\ UNCHANGED <<parsed, details>>
  \/ Raise

Update ==
  \/ /\ Take("update", "bad", TRUE)
     /\ parsed' = [parsed EXCEPT !.new_type = "follow-on"]
     /\ UNCHANGED details
  \/ Raise

(* "key" and "key-hex".                                                     *)
Key ==
  \E value \in Text \cup {"bad"} :
    /\ Take("key", value, value = "bad" \/ ~May({"publish"}))
    /\ parsed' = [parsed EXCEPT !.vKey = IF value = "bad" THEN @ ELSE value]
    /\ UNCHANGED details

Data ==
  \E value \in Text \cup {"bad"} :
    /\ Take("data", value, value = "bad" \/ ~May({"publish"}))
    /\ parsed' = [parsed EXCEPT !.vValue = IF value = "bad" THEN @ ELSE value]
    /\ UNCHANGED details

Name ==
  \/ \E value \in Text :
       /\ Take("name", value, value = "" \/ ~May({"create", "issue"}))
       /\ parsed' = [parsed EXCEPT !.entity_name = IF value = "" THEN @ ELSE value]
       /\ UNCHANGED details
  \/ Raise

Multiple ==
  \E value \in {"1", "bad"} :
    /\ Take("multiple", value, value = "bad" \/ ~May({"issue"}))
    /\ parsed' = [parsed EXCEPT !.multiple = IF value = "bad" THEN @ ELSE <<value>>]
    /\ UNCHANGED details

StartBlock ==
  \E value \in {"0", "1", "bad"} :
    /\ Take("startblock", value, value = "bad" \/ ~May({"upgrade"}))
    /\ parsed' = [parsed EXCEPT !.startblock = IF value = "bad" THEN @ ELSE <<value>>]
    /\ UNCHANGED details

Bool(value) == IF value THEN "true" ELSE "false"

(* A second "open" that is false does not close.                            *)
Open ==
  \/ \E value \in BOOLEAN :
       /\ Take("open", Bool(value), ~May({"create", "issue"}))
       /\ parsed' = [parsed EXCEPT !.is_open = @ \/ value, !.open_is_set = TRUE]
       /\ UNCHANGED details
  \/ Raise

Approve ==
  \/ \E value \in BOOLEAN :
       /\ Take("approve", Bool(value), ~May({"approval"}))
       /\ parsed' = [parsed EXCEPT !.approve = <<value>>]
       /\ UNCHANGED details
  \/ Raise

(* Custom fields and a protocol version; a value that is not an object is   *)
(* passed over.                                                             *)
Details ==
  \/ \E fields \in {<<>>} \cup {<<f>> : f \in Field}, version \in {-1, 0, 1} :
       /\ Take("details", "object",
               \/ parsed.new_type = "cache"
               \/ version = 0
               \/ ~May({"create", "issue", "follow-on"}))
       /\ parsed' = [parsed EXCEPT !.protocol_version = IF version = 1 THEN 1 ELSE @]
       /\ details' = details \o fields
       /\ custom' = custom \o fields
  \/ /\ Take("details", "no object",
             parsed.new_type = "cache" \/ ~May({"create", "issue", "follow-on"}))
     /\ UNCHANGED <<parsed, details, custom>>
  \/ Raise

Unknown ==
  /\ Take("unknown", "", TRUE)
  /\ UNCHANGED <<parsed, details>>

-----------------------------------------------------------------------------
(* The end.  Without a keyword it is the entity the caller gave, or an      *)
(* asset.                                                                   *)
Type ==
  IF parsed.new_type # "none" THEN parsed.new_type
  ELSE IF hasEntity THEN "follow-on" ELSE "asset"

(* Variant: the fields of other entities are not looked at.                 *)
Rejected_TypeOnly ==
  \/ Type = "follow-on" /\ ~May({"follow-on"})
  \/ Type = "asset"     /\ ~May({"issue"})
  \/ Type = "stream"    /\ ~May({"create"})
  \/ Type = "upgrade"   /\ ~May({"upgrade"})

(* Variant: a new asset is not checked against what the caller allows.      *)
Rejected_AnyAsset ==
  \/ Type = "follow-on" /\ ~May({"follow-on"})
  \/ Type = "stream"    /\ (~May({"create"}) \/ parsed.multiple # None)
  \/ Type # "cache"     /\ (parsed.vKey # "" \/ parsed.vValue # "")
  \/ parsed.approve # None

Rejected ==
  \/ Type = "follow-on" /\ ~May({"follow-on"})
  \/ Type = "asset"     /\ ~May({"issue"})
  \/ Type = "stream"    /\ (~May({"create"}) \/ parsed.multiple # None)
  \/ Type = "upgrade"   /\ \/ ~May({"upgrade"})
                           \/ details # <<>>
                           \/ parsed.protocol_version <= 0
                           \/ parsed.multiple # None
                           \/ parsed.open_is_set
  \/ Type # "upgrade"   /\ (parsed.protocol_version > 0 \/ parsed.startblock # None)
  \/ Type # "cache"     /\ (parsed.vKey # "" \/ parsed.vValue # "")
  \/ parsed.approve # None

(* The special parameters, after the custom fields.                         *)
SpecialIf(condition, code, value) == IF condition THEN <<<<code, value>>>> ELSE <<>>

SpecialParams ==
  LET name == SpecialIf(parsed.entity_name # "", "NAME", parsed.entity_name)
  IN  CASE Type = "asset" ->
             SpecialIf(parsed.is_open, "FOLLOW_ONS", "1")
             \o SpecialIf(parsed.multiple # None, "ASSET_MULTIPLE", parsed.multiple[1])
             \o name
        [] Type = "stream" ->
             name \o SpecialIf(parsed.is_open, "ANYONE_CAN_WRITE", "1")
        [] Type = "upgrade" ->
             name
             \o SpecialIf(TRUE, "UPGRADE_PROTOCOL_VERSION", "1")
             \o SpecialIf(parsed.startblock = <<"1">>, "UPGRADE_START_BLOCK", "1")
        [] OTHER -> <<>>

(* SetNewEntityType refuses a script that is too long.                      *)
TooLong(params) == Type # "cache" /\ Len(params) > MaxDetails

Pieces(params) ==
  CASE Type \in {"asset", "stream", "upgrade"} -> <<[kind |-> Type, params |-> params]>>
    [] Type = "follow-on" -> <<[kind |-> "entity", params |-> <<>>],
                               [kind |-> "follow-on", params |-> params]>>
    [] Type = "cache" -> <<[kind |-> "cache", params |-> params]>>

(* The checks stop at the first block that finds an error; all of them end  *)
(* in the same exception.                                                   *)
Finish ==
  /\ status = "object"
  /\ LET params == details \o SpecialParams
     IN  IF failed \/ Rejected \/ TooLong(params)
         THEN status' = "thrown" /\ UNCHANGED script
         ELSE status' = "ok" /\ script' = Pieces(params)
  /\ UNCHANGED <<allowed, hasEntity, given, custom, parsed, details, failed>>

(* A string is data in hexadecimal; an empty one may be no script at all.   *)
ParseString ==
  /\ status = "string"
  /\ \E value \in {"", "hex", "bad"} :
       IF value = "bad" THEN status' = "thrown" /\ UNCHANGED script
       ELSE /\ status' = "ok"
            /\ script' = IF value # "" \/ May({"empty hex"})
                         THEN <<[kind |-> "data", params |-> <<<<"data", value>>>>]>> ELSE <<>>
  /\ UNCHANGED <<allowed, hasEntity, given, custom, parsed, details, failed>>

Next ==
  \/ InputCache \/ Create \/ For \/ Update
  \/ Key \/ Data \/ Name \/ Multiple \/ StartBlock \/ Open \/ Approve \/ Details \/ Unknown
  \/ Finish \/ ParseString

Spec == Init /\ [][Next]_vars

-----------------------------------------------------------------------------
(* Properties.                                                              *)

NewType == {"none", "asset", "stream", "upgrade", "follow-on", "cache"}
FieldName == {"inputcache", "create", "for", "update", "key", "data", "name", "multiple",
              "startblock", "open", "approve", "details", "unknown"}
Value == Text \cup {"bad", "empty", "entry", "no array", "stream", "asset", "upgrade", "", "0", "1",
                    "true", "false", "object", "no object"}

Local == [new_type : NewType, entity_name : Text, multiple : {None, <<"1">>},
          is_open : BOOLEAN, open_is_set : BOOLEAN, protocol_version : {-1, 1},
          startblock : {None, <<"0">>, <<"1">>}, approve : {None, <<TRUE>>, <<FALSE>>},
          vKey : Text, vValue : Text]

(* Only the names of fields that the code knows, and locals of their types. *)
TypeOK ==
  /\ allowed \in Masks /\ hasEntity \in BOOLEAN
  /\ given \in Seq(FieldName \X Value)
  /\ parsed \in Local
  /\ failed \in BOOLEAN
  /\ status \in {"object", "string", "ok", "thrown"}

Given(name) == {i \in 1 .. Len(given) : given[i][1] = name}

(* The value of the last field of a name.                                   *)
LastOf(name) == given[CHOOSE i \in Given(name) : \A j \in Given(name) : j <= i][2]

(* An object was accepted.                                                  *)
Accepted == status = "ok" /\ script # <<>> /\ script[1].kind # "data"

(* The messages promise that only one of create, update and for appears in  *)
(* an object that is accepted, whatever other fields stand between two of   *)
(* them (rawmetadata.cpp:172, 228, 273).                                    *)
OnlyOneKeyword ==
  Accepted => Cardinality(Given("create") \cup Given("for") \cup Given("update")) <= 1

(* An object is accepted only if each of its fields was valid where it      *)
(* stood: no later field makes up for an earlier error (strError).          *)
Valid(pair) ==
  /\ pair[1] \notin {"unknown", "for", "update"}
  /\ pair[2] # "bad"
  /\ CASE pair[1] \in {"key", "data"}   -> May({"publish"})
       [] pair[1] \in {"name", "open"}  -> May({"create", "issue"})
       [] pair[1] = "multiple"          -> May({"issue"})
       [] pair[1] = "startblock"        -> May({"upgrade"})
       [] pair[1] = "inputcache"        -> May({"cache"}) /\ pair[2] # "no array"
       [] pair[1] = "details"           -> May({"create", "issue", "follow-on"})
       [] pair[1] = "approve"           -> FALSE
       [] OTHER                         -> TRUE

ErrorsStick == Accepted => \A i \in 1 .. Len(given) : Valid(given[i])

(* What the script creates is what the caller allowed, and what the object  *)
(* asked for unless it holds an input cache.                                *)
Needs == [asset |-> "issue", stream |-> "create", upgrade |-> "upgrade", cache |-> "cache"]

KindIsAllowed ==
  Accepted =>
    LET kind == script[Len(script)].kind
    IN  /\ kind = "follow-on" => May({"follow-on"})
        /\ kind \in DOMAIN Needs => May({Needs[kind]})
        /\ kind # "cache" => \A i \in Given("create") : given[i][2] = kind
        /\ kind = "cache" <=> Given("inputcache") # {}

(* An accepted object creates one thing, asked for once, that the caller    *)
(* allows, in whatever order its fields come (rawmetadata.cpp:15-24,        *)
(* 174-291, 497-690).                                                       *)
OneAllowedKind == OnlyOneKeyword /\ KindIsAllowed

(* The script of a new entity says everything the object said: every custom *)
(* field, in order, the name, the multiple, the start block and that it is  *)
(* open.  Nothing is left out without an error.                             *)
Says(params, code, value) == \E i \in 1 .. Len(params) : params[i] = <<code, value>>

NewEntityIsComplete ==
  (Accepted /\ script[1].kind \in {"asset", "stream", "upgrade"}) =>
    LET params == script[1].params
    IN  /\ SubSeq(params, 1, Len(custom)) = custom
        /\ Given("name") # {} => Says(params, "NAME", LastOf("name"))
        /\ Given("multiple") # {} => Says(params, "ASSET_MULTIPLE", LastOf("multiple"))
        /\ Given("startblock") # {} =>
             (LastOf("startblock") = "1" <=> Says(params, "UPGRADE_START_BLOCK", "1"))
        /\ (\E i \in Given("open") : given[i][2] = "true") =>
             Says(params, "FOLLOW_ONS", "1") \/ Says(params, "ANYONE_CAN_WRITE", "1")
        /\ \A name \in {"key", "data"} : Given(name) # {} => LastOf(name) = ""

(* "details and inputcache not allowed in the same object"                  *)
(* (rawmetadata.cpp:444).                                                   *)
NotDetailsAndCache == Accepted => ~(Given("details") # {} /\ Given("inputcache") # {})

=============================================================================
