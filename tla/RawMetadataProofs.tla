------------------------- MODULE RawMetadataProofs -------------------------
(***************************************************************************)
(* What ParseRawMetadata accepts, for any callers, texts, custom fields    *)
(* and numbers of fields.                                                  *)
(***************************************************************************)
EXTENDS RawMetadata, FiniteSetTheorems, BasicLemmas, TLAPS

(* A field without an error; an approval is refused only at the end.        *)
Sound(pair) == pair[1] = "approve" \/ Valid(pair)

FieldsAreSound == \A i \in 1 .. Len(given) : Sound(given[i])

(* While there is no error, the type is that of the one field that set it,  *)
(* or a cache's.                                                            *)
OneCreate == \A i, j \in Given("create") : i = j

TypeIsAsked ==
  /\ Given("create") # {} => parsed.new_type # "none"
  /\ parsed.new_type # "cache" => \A i \in Given("create") : given[i][2] = parsed.new_type
  /\ parsed.new_type = "cache" <=> Given("inputcache") # {}

FieldsInv == ~failed => FieldsAreSound /\ OneCreate /\ TypeIsAsked

ApprovalIsNoted == parsed.approve = None => Given("approve") = {}

(* The script of an accepted object is of the type the checks were about.   *)
AcceptedInv ==
  /\ status \in {"object", "string"} => script = <<>>
  /\ Accepted => ~failed /\ ~Rejected /\ script[Len(script)].kind = Type

IInv == TypeOK /\ FieldsInv /\ ApprovalIsNoted /\ AcceptedInv

Fields == FieldName \X Value

(* What the places of a name are after one more field.                      *)
LEMMA GivenAppend ==
  ASSUME given \in Seq(Fields), NEW name \in FieldName, NEW value \in Value,
         given' = Append(given, <<name, value>>), NEW other \in FieldName
  PROVE  /\ Given(other)' = Given(other) \cup (IF other = name THEN {Len(given) + 1} ELSE {})
         /\ Given(other) \subseteq 1 .. Len(given)
         /\ \A i \in 1 .. Len(given) : given'[i] = given[i]
         /\ Len(given') = Len(given) + 1 /\ given'[Len(given) + 1] = <<name, value>>
         /\ given' \in Seq(Fields)
<1>1. <<name, value>> \in Fields  BY DEF Fields
<1>2. /\ Len(given') = Len(given) + 1 /\ given'[Len(given) + 1] = <<name, value>>
      /\ \A i \in 1 .. Len(given) : given'[i] = given[i]
      /\ given' \in Seq(Fields)
  BY <1>1
<1>3. given'[Len(given) + 1][1] = name  BY <1>2
<1> QED  BY <1>2, <1>3 DEF Given

LEMMA InitIInv == Init => IInv
<1> SUFFICES ASSUME Init PROVE IInv  OBVIOUS
<1>1. TypeOK
  <2>1. parsed \in Local
    BY RawMetadataAssumption DEF Init, Local, NewType, None
  <2>2. <<>> \in Seq(FieldName \X Value)
    OBVIOUS
  <2>3. given = <<>>
    BY DEF Init
  <2>4. given \in Seq(FieldName \X Value)
    BY ONLY <2>2, <2>3
  <2> QED
    BY <2>1, <2>4 DEF Init, TypeOK
<1>2. Len(given) = 0  BY DEF Init
<1>3. \A name : Given(name) = {}  BY <1>2 DEF Given
<1>4. parsed.new_type = "none"  BY DEF Init
<1>5. FieldsInv  BY <1>2, <1>3, <1>4 DEF FieldsInv, FieldsAreSound, OneCreate, TypeIsAsked
<1>6. ApprovalIsNoted  BY <1>3 DEF ApprovalIsNoted
<1>7. AcceptedInv  BY DEF AcceptedInv, Accepted, Init
<1> QED  BY <1>1, <1>5, <1>6, <1>7 DEF IInv

LEMMA SameFields ==
  ASSUME IInv, UNCHANGED <<allowed, given, parsed, failed>>
  PROVE  FieldsInv' /\ ApprovalIsNoted'
<1>1. ApprovalIsNoted'
  BY DEF IInv, ApprovalIsNoted, Given
<1>2. ASSUME FieldsAreSound PROVE FieldsAreSound'
  <2> SUFFICES ASSUME NEW i \in 1 .. Len(given) PROVE Sound(given[i])'
    BY DEF FieldsAreSound
  <2>1. Sound(given[i])
    BY <1>2 DEF FieldsAreSound
  <2> QED
    BY <2>1 DEF Sound, Valid, May
<1>3. OneCreate /\ TypeIsAsked => OneCreate' /\ TypeIsAsked'
  BY DEF OneCreate, TypeIsAsked, Given
<1> QED
  BY <1>1, <1>2, <1>3 DEF IInv, FieldsInv

(* What a field adds is only looked at while there is no error.             *)
LEMMA TakeGood ==
  ASSUME IInv, NEW name \in FieldName, NEW value \in Value, NEW error \in BOOLEAN,
         Take(name, value, error), parsed' \in Local,
         parsed'.approve = None => parsed.approve = None /\ name # "approve",
         ~failed /\ ~error /\ OneCreate /\ TypeIsAsked
           => Sound(<<name, value>>)' /\ OneCreate' /\ TypeIsAsked'
  PROVE  IInv'
<1>1. /\ given \in Seq(Fields) /\ given' = Append(given, <<name, value>>)
      /\ failed' = (failed \/ error) /\ status = "object"
      /\ UNCHANGED <<allowed, hasEntity, status, script>>
  BY DEF IInv, TypeOK, Take, Fields
<1>2. TypeOK'
  BY <1>1, GivenAppend DEF IInv, TypeOK, Fields
<1>3. FieldsInv'
  <2> SUFFICES ASSUME ~failed' PROVE FieldsAreSound' /\ OneCreate' /\ TypeIsAsked'
    BY DEF FieldsInv
  <2>1. ~failed /\ ~error
    BY <1>1 DEF IInv, TypeOK
  <2>2. FieldsAreSound /\ OneCreate /\ TypeIsAsked
    BY <2>1 DEF IInv, FieldsInv
  <2>3. FieldsAreSound'
    <3> SUFFICES ASSUME NEW i \in 1 .. Len(given') PROVE Sound(given[i])'
      BY DEF FieldsAreSound
    <3>1. CASE i \in 1 .. Len(given)
      <4>1. Sound(given[i]) /\ given'[i] = given[i]
        BY <1>1, <2>2, <3>1, GivenAppend DEF FieldsAreSound
      <4>2. UNCHANGED allowed
        BY <1>1
      <4> QED
        BY <4>1, <4>2 DEF Sound, Valid, May
    <3>2. CASE i = Len(given) + 1
      <4>1. given'[i] = <<name, value>>
        BY <1>1, <3>2, GivenAppend
      <4>2. Sound(<<name, value>>)'
        BY <2>1, <2>2
      <4> QED
        BY <4>1, <4>2 DEF Sound, Valid, May
    <3> QED
      BY <1>1, <3>1, <3>2, GivenAppend
  <2> QED
    BY <2>1, <2>2, <2>3
<1>4. ApprovalIsNoted'
  BY <1>1, GivenAppend DEF ApprovalIsNoted, IInv, FieldName
<1>5. AcceptedInv'
  BY <1>1 DEF AcceptedInv, Accepted, IInv
<1> QED
  BY <1>2, <1>3, <1>4, <1>5 DEF IInv

(* A field that changes neither the type nor what was created.              *)
LEMMA TakeOther ==
  ASSUME IInv, NEW name \in FieldName \ {"create", "inputcache"}, NEW value \in Value,
         NEW error \in BOOLEAN, Take(name, value, error), parsed' \in Local,
         parsed'.approve = None => parsed.approve = None /\ name # "approve",
         error \/ (Sound(<<name, value>>)' /\ parsed'.new_type = parsed.new_type)
  PROVE  IInv'
<1>1. given \in Seq(Fields) /\ given' = Append(given, <<name, value>>)
  BY DEF IInv, TypeOK, Take, Fields
<1>2. Given("create")' = Given("create") /\ Given("inputcache")' = Given("inputcache")
  BY SMTT(90), <1>1, GivenAppend DEF FieldName
<1>3. \A i \in Given("create") : given'[i] = given[i]
  BY <1>1, GivenAppend DEF FieldName
<1>4. ~error /\ OneCreate /\ TypeIsAsked => OneCreate' /\ TypeIsAsked'
  BY <1>2, <1>3 DEF OneCreate, TypeIsAsked
<1> QED
  BY <1>4, TakeGood

LEMMA CreateIsGood == ASSUME IInv, Create, ~Raise PROVE IInv'
<1>1. PICK value \in {"stream", "asset", "upgrade", "bad"} : \E error \in BOOLEAN :
        /\ Take("create", value, error)
        /\ ~error => /\ parsed.new_type = "none" /\ value # "bad"
                     /\ parsed'.new_type = value
        /\ parsed' \in Local /\ parsed'.approve = parsed.approve
  BY ZenonT(60) DEF Create, IInv, TypeOK, Local, NewType
<1>2. PICK error \in BOOLEAN :
        /\ Take("create", value, error)
        /\ ~error => /\ parsed.new_type = "none" /\ value # "bad"
                     /\ parsed'.new_type = value
        /\ parsed' \in Local /\ parsed'.approve = parsed.approve
  BY <1>1
<1>3. given \in Seq(Fields) /\ given' = Append(given, <<"create", value>>) /\ value \in Value
  BY <1>2 DEF IInv, TypeOK, Take, Fields, Value
<1>4. ASSUME ~error, OneCreate, TypeIsAsked
      PROVE  Sound(<<"create", value>>)' /\ OneCreate' /\ TypeIsAsked'
  <2>1. Given("create") = {} /\ Given("inputcache") = {}
    BY <1>2, <1>4 DEF TypeIsAsked
  <2>2. /\ Given("create")' = {Len(given) + 1} /\ Given("inputcache")' = {}
        /\ given'[Len(given) + 1] = <<"create", value>>
    BY <1>3, <2>1, GivenAppend DEF FieldName
  <2>3. given'[Len(given) + 1][2] = value
    BY <2>2
  <2>4. OneCreate' /\ TypeIsAsked'
    BY <1>1, <1>2, <1>4, <2>2, <2>3 DEF OneCreate, TypeIsAsked
  <2> QED
    BY <1>2, <1>4, <2>4 DEF Sound, Valid
<1> QED
  BY <1>2, <1>3, <1>4, TakeGood DEF FieldName

LEMMA InputCacheIsGood == ASSUME IInv, InputCache, ~Raise PROVE IInv'
<1>1. PICK value \in {"empty", "entry", "bad", "no array"} : \E error \in BOOLEAN :
        /\ Take("inputcache", value, error)
        /\ ~error => value \notin {"bad", "no array"} /\ May({"cache"})
        /\ parsed' \in Local /\ parsed'.approve = parsed.approve /\ parsed'.new_type = "cache"
  BY ZenonT(60) DEF InputCache, IInv, TypeOK, Local, NewType
<1>2. PICK error \in BOOLEAN :
        /\ Take("inputcache", value, error)
        /\ ~error => value \notin {"bad", "no array"} /\ May({"cache"})
        /\ parsed' \in Local /\ parsed'.approve = parsed.approve /\ parsed'.new_type = "cache"
  BY <1>1
<1>3. /\ given \in Seq(Fields) /\ given' = Append(given, <<"inputcache", value>>)
      /\ value \in Value /\ UNCHANGED allowed
  BY <1>2 DEF IInv, TypeOK, Take, Fields, Value
<1>4. ASSUME ~error, OneCreate, TypeIsAsked
      PROVE  Sound(<<"inputcache", value>>)' /\ OneCreate' /\ TypeIsAsked'
  <2>1. Given("create")' = Given("create") /\ Given("inputcache")' # {}
    BY ZenonT(30), <1>3, GivenAppend DEF FieldName
  <2>2. OneCreate' /\ TypeIsAsked'
    BY <1>2, <1>4, <2>1 DEF OneCreate, TypeIsAsked
  <2> QED
    BY <1>2, <1>3, <1>4, <2>2 DEF Sound, Valid, May
<1> QED
  BY <1>2, <1>3, <1>4, TakeGood DEF FieldName

LEMMA FinishIsGood == ASSUME IInv, Finish PROVE IInv'
<1>1. /\ status = "object" /\ status' \in {"ok", "thrown"}
      /\ UNCHANGED <<allowed, hasEntity, given, custom, parsed, details, failed>>
  BY DEF Finish
<1>2. TypeOK'
  BY <1>1 DEF IInv, TypeOK
<1>3. FieldsInv' /\ ApprovalIsNoted'
  BY <1>1, SameFields
<1>4. ASSUME status' = "ok"
      PROVE  ~failed' /\ ~Rejected' /\ script'[Len(script')].kind = Type'
  <2>1. ~failed /\ ~Rejected
    BY <1>4 DEF Finish
  <2>2. PICK params : script' = Pieces(params)
    BY <1>4 DEF Finish
  <2>3. Type \in {"asset", "stream", "upgrade", "follow-on", "cache"}
    BY DEF Type, IInv, TypeOK, Local, NewType
  <2>4. script'[Len(script')].kind = Type
    <3>1. CASE Type = "follow-on"
      <4>1. script' = <<[kind |-> "entity", params |-> <<>>], [kind |-> "follow-on", params |-> params]>>
        BY <2>2, <3>1 DEF Pieces
      <4>2. script'[2] = [kind |-> "follow-on", params |-> params] /\ Len(script') = 2
        BY <4>1
      <4> QED
        BY <3>1, <4>2
    <3>2. CASE Type # "follow-on"
      <4>1. script' = <<[kind |-> Type, params |-> params]>>
        BY <2>2, <2>3, <3>2 DEF Pieces
      <4>2. script'[1] = [kind |-> Type, params |-> params] /\ Len(script') = 1
        BY <4>1
      <4> QED
        BY <4>2
    <3> QED
      BY <3>1, <3>2
  <2>5. Type' = Type
    BY <1>1 DEF Type
  <2>6. ~Rejected'
    BY <1>1, <2>1 DEF Rejected, Type, May
  <2> QED
    BY <1>1, <2>1, <2>4, <2>5, <2>6
<1>5. AcceptedInv'
  BY <1>1, <1>4 DEF AcceptedInv, Accepted
<1> QED
  BY <1>2, <1>3, <1>5 DEF IInv

LEMMA ParseStringIsGood == ASSUME IInv, ParseString PROVE IInv'
<1>1. /\ status' \in {"ok", "thrown"}
      /\ UNCHANGED <<allowed, hasEntity, given, custom, parsed, details, failed>>
  BY DEF ParseString
<1>2. TypeOK'
  BY <1>1 DEF IInv, TypeOK
<1>3. FieldsInv' /\ ApprovalIsNoted'
  BY <1>1, SameFields
<1>4. ASSUME status' = "ok" PROVE script' = <<>> \/ script'[1].kind = "data"
  <2>1. PICK value : script' \in {<<>>, <<[kind |-> "data", params |-> <<<<"data", value>>>>]>>}
    BY <1>4 DEF ParseString
  <2>2. CASE script' = <<[kind |-> "data", params |-> <<<<"data", value>>>>]>>
    <3>1. script'[1] = [kind |-> "data", params |-> <<<<"data", value>>>>]
      BY <2>2
    <3> QED
      BY <3>1
  <2> QED
    BY <2>1, <2>2
<1>5. AcceptedInv'
  BY <1>1, <1>4 DEF AcceptedInv, Accepted
<1> QED
  BY <1>2, <1>3, <1>5 DEF IInv

LEMMA RaiseIsGood == ASSUME IInv, Raise PROVE IInv'
<1>1. /\ status' = "thrown"
      /\ UNCHANGED <<allowed, hasEntity, given, custom, parsed, details, failed, script>>
  BY DEF Raise
<1>2. TypeOK'
  BY <1>1 DEF IInv, TypeOK
<1>3. FieldsInv' /\ ApprovalIsNoted'
  BY <1>1, SameFields
<1>4. AcceptedInv'
  BY <1>1 DEF AcceptedInv, Accepted
<1> QED
  BY <1>2, <1>3, <1>4 DEF IInv

(* The fields of the values of a new script, each of which sets its local.  *)
LEMMA KeyIsGood == ASSUME IInv, Key, ~Raise PROVE IInv'
<1>1. PICK value \in Text \cup {"bad"} :
        /\ Take("key", value, value = "bad" \/ ~May({"publish"}))
        /\ parsed' = [parsed EXCEPT !.vKey = IF value = "bad" THEN @ ELSE value]
  BY DEF Key
<1>2. /\ parsed' \in Local /\ parsed'.new_type = parsed.new_type
      /\ parsed'.approve = parsed.approve
  BY <1>1 DEF IInv, TypeOK, Local, None
<1>3. UNCHANGED allowed
  BY <1>1 DEF Take
<1>4. (value = "bad" \/ ~May({"publish"})) \/ Sound(<<"key", value>>)'
  BY <1>1, <1>3 DEF Sound, Valid, May
<1> QED
  BY <1>1, <1>2, <1>4, TakeOther DEF FieldName, Value

LEMMA DataIsGood == ASSUME IInv, Data, ~Raise PROVE IInv'
<1>1. PICK value \in Text \cup {"bad"} :
        /\ Take("data", value, value = "bad" \/ ~May({"publish"}))
        /\ parsed' = [parsed EXCEPT !.vValue = IF value = "bad" THEN @ ELSE value]
  BY DEF Data
<1>2. /\ parsed' \in Local /\ parsed'.new_type = parsed.new_type
      /\ parsed'.approve = parsed.approve
  BY <1>1 DEF IInv, TypeOK, Local, None
<1>3. UNCHANGED allowed
  BY <1>1 DEF Take
<1>4. (value = "bad" \/ ~May({"publish"})) \/ Sound(<<"data", value>>)'
  BY <1>1, <1>3 DEF Sound, Valid, May
<1> QED
  BY <1>1, <1>2, <1>4, TakeOther DEF FieldName, Value

LEMMA NameIsGood == ASSUME IInv, Name, ~Raise PROVE IInv'
<1>1. PICK value \in Text :
        /\ Take("name", value, value = "" \/ ~May({"create", "issue"}))
        /\ parsed' = [parsed EXCEPT !.entity_name = IF value = "" THEN @ ELSE value]
  BY DEF Name
<1>2. /\ parsed' \in Local /\ parsed'.new_type = parsed.new_type
      /\ parsed'.approve = parsed.approve
  BY <1>1 DEF IInv, TypeOK, Local, None
<1>3. UNCHANGED allowed
  BY <1>1 DEF Take
<1>4. (value = "" \/ ~May({"create", "issue"})) \/ Sound(<<"name", value>>)'
  BY <1>1, <1>3, RawMetadataAssumption DEF Sound, Valid, May
<1> QED
  BY <1>1, <1>2, <1>4, TakeOther DEF FieldName, Value

LEMMA MultipleIsGood == ASSUME IInv, Multiple, ~Raise PROVE IInv'
<1>1. PICK value \in {"1", "bad"} :
        /\ Take("multiple", value, value = "bad" \/ ~May({"issue"}))
        /\ parsed' = [parsed EXCEPT !.multiple = IF value = "bad" THEN @ ELSE <<value>>]
  BY DEF Multiple
<1>2. /\ parsed' \in Local /\ parsed'.new_type = parsed.new_type
      /\ parsed'.approve = parsed.approve
  BY <1>1 DEF IInv, TypeOK, Local, None
<1>3. UNCHANGED allowed
  BY <1>1 DEF Take
<1>4. (value = "bad" \/ ~May({"issue"})) \/ Sound(<<"multiple", value>>)'
  BY <1>1, <1>3 DEF Sound, Valid, May
<1> QED
  BY <1>1, <1>2, <1>4, TakeOther DEF FieldName, Value

LEMMA StartBlockIsGood == ASSUME IInv, StartBlock, ~Raise PROVE IInv'
<1>1. PICK value \in {"0", "1", "bad"} :
        /\ Take("startblock", value, value = "bad" \/ ~May({"upgrade"}))
        /\ parsed' = [parsed EXCEPT !.startblock = IF value = "bad" THEN @ ELSE <<value>>]
  BY DEF StartBlock
<1>2. /\ parsed' \in Local /\ parsed'.new_type = parsed.new_type
      /\ parsed'.approve = parsed.approve
  BY <1>1 DEF IInv, TypeOK, Local, None
<1>3. UNCHANGED allowed
  BY <1>1 DEF Take
<1>4. (value = "bad" \/ ~May({"upgrade"})) \/ Sound(<<"startblock", value>>)'
  BY <1>1, <1>3 DEF Sound, Valid, May
<1> QED
  BY <1>1, <1>2, <1>4, TakeOther DEF FieldName, Value

LEMMA OpenIsGood == ASSUME IInv, Open, ~Raise PROVE IInv'
<1>1. PICK value \in BOOLEAN :
        /\ Take("open", Bool(value), ~May({"create", "issue"}))
        /\ parsed' = [parsed EXCEPT !.is_open = @ \/ value, !.open_is_set = TRUE]
  BY DEF Open
<1>2. /\ parsed' \in Local /\ parsed'.new_type = parsed.new_type
      /\ parsed'.approve = parsed.approve
  BY <1>1 DEF IInv, TypeOK, Local
<1>3. UNCHANGED allowed
  BY <1>1 DEF Take
<1>4. Bool(value) \in {"true", "false"}
  BY DEF Bool
<1>5. ~May({"create", "issue"}) \/ Sound(<<"open", Bool(value)>>)'
  BY <1>3, <1>4 DEF Sound, Valid, May
<1> QED
  BY <1>1, <1>2, <1>4, <1>5, TakeOther DEF FieldName, Value

(* An approval is noted, and refused at the end.                            *)
LEMMA ApproveIsGood == ASSUME IInv, Approve, ~Raise PROVE IInv'
<1>1. PICK value \in BOOLEAN :
        /\ Take("approve", Bool(value), ~May({"approval"}))
        /\ parsed' = [parsed EXCEPT !.approve = <<value>>]
  BY DEF Approve
<1>2. <<value>> \in {<<TRUE>>, <<FALSE>>} /\ <<value>> # None
  BY DEF None
<1>3. /\ parsed' \in Local /\ parsed'.new_type = parsed.new_type
      /\ parsed'.approve # None
  BY <1>1, <1>2 DEF IInv, TypeOK, Local
<1>4. Bool(value) \in {"true", "false"}
  BY DEF Bool
<1>5. Sound(<<"approve", Bool(value)>>)'
  BY DEF Sound
<1> QED
  BY <1>1, <1>3, <1>4, <1>5, TakeOther DEF FieldName, Value

LEMMA DetailsIsGood == ASSUME IInv, Details, ~Raise PROVE IInv'
<1>1. PICK value \in {"object", "no object"} : \E error \in BOOLEAN :
        /\ Take("details", value, error)
        /\ ~error => May({"create", "issue", "follow-on"})
        /\ \/ parsed' = parsed
           \/ parsed' = [parsed EXCEPT !.protocol_version = 1]
  BY DEF Details, IInv, TypeOK, Local
<1>2. PICK error \in BOOLEAN :
        /\ Take("details", value, error)
        /\ ~error => May({"create", "issue", "follow-on"})
        /\ \/ parsed' = parsed
           \/ parsed' = [parsed EXCEPT !.protocol_version = 1]
  BY <1>1
<1>3. /\ parsed' \in Local /\ parsed'.new_type = parsed.new_type
      /\ parsed'.approve = parsed.approve
  BY <1>2 DEF IInv, TypeOK, Local
<1>4. UNCHANGED allowed
  BY <1>2 DEF Take
<1>5. error \/ Sound(<<"details", value>>)'
  BY <1>2, <1>4 DEF Sound, Valid, May
<1> QED
  BY <1>2, <1>3, <1>5, TakeOther DEF FieldName, Value

(* What is always an error.                                                 *)
LEMMA WrongIsGood == ASSUME IInv, For \/ Update \/ Unknown, ~Raise PROVE IInv'
<1>1. PICK name \in {"for", "update", "unknown"} : \E value \in {"", "bad"} :
        /\ Take(name, value, TRUE)
        /\ \/ parsed' = parsed
           \/ parsed' = [parsed EXCEPT !.new_type = "follow-on"]
  BY DEF For, Update, Unknown
<1>2. parsed' \in Local /\ parsed'.approve = parsed.approve
  BY <1>1 DEF IInv, TypeOK, Local, NewType
<1> QED
  BY <1>1, <1>2, TakeOther DEF FieldName, Value

LEMMA NextIsGood == ASSUME IInv, [Next]_vars PROVE IInv'
<1>1. CASE UNCHANGED vars
  <2>1. UNCHANGED <<allowed, hasEntity, given, parsed, details, failed, status, script>>
    BY <1>1 DEF vars
  <2>2. FieldsInv' /\ ApprovalIsNoted'
    BY <2>1, SameFields
  <2>3. AcceptedInv'
    BY <2>1 DEF IInv, AcceptedInv, Accepted, Rejected, Type, May
  <2> QED
    BY <2>1, <2>2, <2>3 DEF IInv, TypeOK
<1>2. CASE Raise
  BY <1>2, RaiseIsGood
<1>3. CASE ~Raise /\ Next
  BY <1>3, InputCacheIsGood, CreateIsGood, WrongIsGood, KeyIsGood, DataIsGood, NameIsGood,
     MultipleIsGood, StartBlockIsGood, OpenIsGood, ApproveIsGood, DetailsIsGood, FinishIsGood,
     ParseStringIsGood DEF Next
<1> QED
  BY <1>1, <1>2, <1>3

THEOREM InductiveInvariant == Spec => []IInv
BY InitIInv, NextIsGood, PTL DEF Spec

(* The locals have their types, and only known names are noted.             *)
THEOREM TypeCorrect == Spec => []TypeOK
<1>1. IInv => TypeOK
  BY DEF IInv
<1> QED
  BY <1>1, InductiveInvariant, PTL

-----------------------------------------------------------------------------
(* An object that was accepted has passed every check.                      *)
LEMMA IInvErrorsStick == IInv => ErrorsStick
<1> SUFFICES ASSUME IInv, Accepted, NEW i \in 1 .. Len(given) PROVE Valid(given[i])
  BY DEF ErrorsStick
<1>1. ~failed /\ ~Rejected
  BY DEF IInv, AcceptedInv
<1>2. Given("approve") = {}
  BY <1>1 DEF IInv, ApprovalIsNoted, Rejected
<1>3. given[i][1] # "approve"
  BY <1>2 DEF Given
<1>4. Sound(given[i])
  BY <1>1 DEF IInv, FieldsInv, FieldsAreSound
<1> QED
  BY <1>3, <1>4 DEF Sound

(* No object with an invalid field is accepted, however many fields and     *)
(* texts there are, and whatever the caller allows (rawmetadata.cpp:497).   *)
THEOREM ErrorsAlwaysStick == Spec => []ErrorsStick
BY IInvErrorsStick, InductiveInvariant, PTL

LEMMA IInvOnlyOneKeyword == IInv => OnlyOneKeyword
<1> SUFFICES ASSUME IInv, Accepted
             PROVE  Cardinality(Given("create") \cup Given("for") \cup Given("update")) <= 1
  BY DEF OnlyOneKeyword
<1>1. Given("for") = {} /\ Given("update") = {}
  BY IInvErrorsStick DEF ErrorsStick, Given, Valid
<1>2. OneCreate
  BY DEF IInv, AcceptedInv, FieldsInv
<1>3. CASE Given("create") = {}
  BY <1>1, <1>3, FS_EmptySet
<1>4. CASE Given("create") # {}
  <2>1. PICK i : Given("create") = {i}
    BY <1>2, <1>4 DEF OneCreate
  <2>2. Cardinality({i}) = 1
    BY FS_Singleton
  <2> QED
    BY <1>1, <2>1, <2>2
<1> QED
  BY <1>3, <1>4

LEMMA IInvKindIsAllowed == IInv => KindIsAllowed
<1> SUFFICES ASSUME IInv, Accepted PROVE KindIsAllowed
  BY DEF KindIsAllowed
<1> DEFINE kind == script[Len(script)].kind
<1>1. kind = Type /\ ~Rejected /\ TypeIsAsked
  BY DEF IInv, AcceptedInv, FieldsInv
<1>2. parsed.new_type \in NewType
  BY DEF IInv, TypeOK, Local
<1>3. kind = "cache" <=> Given("inputcache") # {}
  BY <1>1 DEF TypeIsAsked, Type
<1>4. kind = "cache" => May({"cache"})
  <2>1. SUFFICES ASSUME NEW i \in Given("inputcache") PROVE May({"cache"})
    BY <1>3
  <2>2. Valid(given[i]) /\ given[i][1] = "inputcache"
    BY IInvErrorsStick DEF ErrorsStick, Given
  <2> QED
    BY <2>2 DEF Valid
<1>5. kind # "cache" => \A i \in Given("create") : given[i][2] = kind
  BY <1>1, <1>2 DEF TypeIsAsked, Type
<1>6. /\ kind = "follow-on" => May({"follow-on"})
      /\ kind = "asset" => May({"issue"})
      /\ kind = "stream" => May({"create"})
      /\ kind = "upgrade" => May({"upgrade"})
  BY <1>1 DEF Rejected
<1>7. kind \in DOMAIN Needs => May({Needs[kind]})
  <2>1. /\ DOMAIN Needs = {"asset", "stream", "upgrade", "cache"}
        /\ Needs["asset"] = "issue" /\ Needs["stream"] = "create"
        /\ Needs["upgrade"] = "upgrade" /\ Needs["cache"] = "cache"
    BY DEF Needs
  <2> HIDE DEF kind
  <2> QED
    BY <1>4, <1>6, <2>1
<1> QED
  BY <1>3, <1>5, <1>6, <1>7 DEF KindIsAllowed

(* An accepted object creates one thing, that the caller allows, for any    *)
(* set of callers and any order of its fields (rawmetadata.cpp:15-24).      *)
THEOREM OneKindAlways == Spec => []OneAllowedKind
<1>1. IInv => OneAllowedKind
  BY IInvOnlyOneKeyword, IInvKindIsAllowed DEF OneAllowedKind
<1> QED
  BY <1>1, InductiveInvariant, PTL

-----------------------------------------------------------------------------
(* What the locals hold of the fields taken so far, while there is no       *)
(* error: of a name that came twice the last value.                         *)
LocalOf(name) ==
  CASE name = "name"       -> <<parsed.entity_name>>
    [] name = "multiple"   -> parsed.multiple
    [] name = "startblock" -> parsed.startblock
    [] name = "key"        -> <<parsed.vKey>>
    [] name = "data"       -> <<parsed.vValue>>

Noted == {"name", "multiple", "startblock", "key", "data"}

LastIsNoted(name) == Given(name) # {} => LocalOf(name) = <<LastOf(name)>>

(* "open" cannot be taken back.                                             *)
OpenIsNoted ==
  /\ Given("open") # {} => parsed.open_is_set
  /\ \A i \in Given("open") : given[i][2] = "true" => parsed.is_open

NameIsNoted == Given("name") # {} => parsed.entity_name # ""
DetailsAreKept == parsed.new_type # "cache" => details = custom

LocalsSay == (\A name \in Noted : LastIsNoted(name)) /\ OpenIsNoted /\ NameIsNoted /\ DetailsAreKept

(* The script of a new entity is built of the locals.                       *)
NewEntity == {"asset", "stream", "upgrade"}

SaidInv ==
  /\ custom \in Seq(Field)
  /\ ~failed => LocalsSay
  /\ (Accepted /\ script[1].kind \in NewEntity) =>
       script[1] = [kind |-> Type, params |-> details \o SpecialParams]

(* Among some places in a sequence there is a last one.                     *)
LEMMA LastExists ==
  ASSUME NEW n \in Nat, NEW S \in SUBSET (1 .. n), S # {}
  PROVE  \E i \in S : \A j \in S : j <= i
<1> DEFINE T == {k \in 0 .. n : \A j \in S : j <= k}
<1>1. T \in SUBSET Nat /\ n \in T
  OBVIOUS
<1>2. PICK m \in T : \A k \in T : m <= k
  BY <1>1, LeastNatural
<1>3. m \in S
  <2> SUFFICES ASSUME m \notin S PROVE FALSE
    OBVIOUS
  <2>1. m \in 0 .. n /\ \A j \in S : j <= m /\ j # m /\ j \in 1 .. n
    BY <1>2
  <2>2. m \in 1 .. n
    <3>1. PICK j : j \in S
      OBVIOUS
    <3>2. j \in 1 .. n /\ j <= m
      BY <2>1, <3>1
    <3> QED
      BY ONLY <2>1, <3>2, n \in Nat
  <2>3. m - 1 \in T
    BY <2>1, <2>2
  <2> QED
    BY <1>2, <2>2, <2>3
<1> QED
  BY <1>2, <1>3

(* The last value of each name after one more field.                        *)
LEMMA LastAppend ==
  ASSUME given \in Seq(Fields), NEW name \in FieldName, NEW value \in Value,
         given' = Append(given, <<name, value>>)
  PROVE  /\ Given(name)' # {} /\ LastOf(name)' = value
         /\ \A other \in FieldName \ {name} :
              /\ Given(other)' = Given(other)
              /\ Given(other) # {} => LastOf(other)' = LastOf(other)
<1>1. LastOf(name)' = value
  <2>1. /\ Given(name)' = Given(name) \cup {Len(given) + 1}
        /\ Given(name) \subseteq 1 .. Len(given)
        /\ given'[Len(given) + 1] = <<name, value>>
    BY GivenAppend
  <2>2. Len(given) \in Nat
    OBVIOUS
  <2>3. (CHOOSE i \in Given(name)' : \A j \in Given(name)' : j <= i) = Len(given) + 1
    BY <2>1, <2>2
  <2> QED
    BY <2>1, <2>3 DEF LastOf
<1>2. ASSUME NEW other \in FieldName \ {name}
      PROVE  /\ Given(other)' = Given(other)
             /\ Given(other) # {} => LastOf(other)' = LastOf(other)
  <2>1. Given(other)' = Given(other)
    BY ZenonT(30), GivenAppend
  <2>2. ASSUME Given(other) # {} PROVE LastOf(other)' = LastOf(other)
    <3> DEFINE last == CHOOSE i \in Given(other) : \A j \in Given(other) : j <= i
    <3>1. Given(other) \subseteq 1 .. Len(given) /\ Len(given) \in Nat
      BY DEF Given
    <3>2. \E i \in Given(other) : \A j \in Given(other) : j <= i
      BY <2>2, <3>1, LastExists
    <3>3. last \in Given(other)
      BY <3>2
    <3>4. given'[last] = given[last]
      BY <3>1, <3>3, GivenAppend
    <3> QED
      BY <2>1, <3>4 DEF LastOf
  <2> QED
    BY <2>1, <2>2
<1> QED
  BY <1>1, <1>2, GivenAppend

LEMMA InitSaid == Init => SaidInv
<1> SUFFICES ASSUME Init PROVE SaidInv
  OBVIOUS
<1>1. \A name : Given(name) = {}
  <2>1. Len(given) = 0
    BY DEF Init
  <2> QED
    BY <2>1 DEF Given
<1>2. LocalsSay
  BY <1>1 DEF LocalsSay, LastIsNoted, OpenIsNoted, NameIsNoted, DetailsAreKept, Init
<1>3. custom \in Seq(Field)
  <2>1. custom = <<>>
    BY DEF Init
  <2> QED
    BY ONLY <2>1
<1>4. ~Accepted
  BY DEF Init, Accepted
<1> QED
  BY <1>2, <1>3, <1>4 DEF SaidInv

(* A field without an error is noted in its local, and in no other.         *)
Notes(name, value) ==
  /\ \A other \in Noted \ {name} : LocalOf(other)' = LocalOf(other)
  /\ name \in Noted => LocalOf(name)' = <<value>>
  /\ name = "name" => value # ""
  /\ parsed.is_open => parsed'.is_open
  /\ parsed.open_is_set => parsed'.open_is_set
  /\ name = "open" => parsed'.open_is_set /\ (value = "true" => parsed'.is_open)
  /\ DetailsAreKept'

LEMMA TakeSays ==
  ASSUME IInv, SaidInv, NEW name \in FieldName, NEW value \in Value, NEW error \in BOOLEAN,
         Take(name, value, error), custom' \in Seq(Field),
         ~error /\ DetailsAreKept => Notes(name, value)
  PROVE  SaidInv'
<1>1. /\ given \in Seq(Fields) /\ given' = Append(given, <<name, value>>)
      /\ failed' = (failed \/ error) /\ status = "object" /\ status' = status
      /\ failed \in BOOLEAN
  BY DEF IInv, TypeOK, Take, Fields
<1>2. ~Accepted'
  BY <1>1 DEF Accepted
<1>3. ASSUME ~failed' PROVE LocalsSay'
  <2>1. ~error /\ LocalsSay
    BY <1>1, <1>3 DEF SaidInv
  <2>2. Notes(name, value)
    BY <2>1 DEF LocalsSay
  <2>3. ASSUME NEW other \in Noted PROVE LastIsNoted(other)'
    <3>1. CASE other = name
      <4>1. LocalOf(other)' = <<value>>
        BY <2>2, <2>3, <3>1 DEF Notes
      <4>2. LastOf(other)' = value
        BY <1>1, <3>1, LastAppend
      <4> QED
        BY <4>1, <4>2 DEF LastIsNoted
    <3>2. CASE other # name
      <4>1. LocalOf(other)' = LocalOf(other)
        BY <2>2, <2>3, <3>2 DEF Notes
      <4>2. other \in FieldName \ {name}
        BY <2>3, <3>2 DEF Noted, FieldName
      <4>3. /\ Given(other)' = Given(other)
            /\ Given(other) # {} => LastOf(other)' = LastOf(other)
        BY <1>1, <4>2, LastAppend
      <4>4. LastIsNoted(other)
        BY <2>1, <2>3 DEF LocalsSay
      <4> QED
        BY <4>1, <4>3, <4>4 DEF LastIsNoted
    <3> QED
      BY <3>1, <3>2
  <2>4. OpenIsNoted'
    <3>1. CASE name = "open"
      <4>1. parsed'.open_is_set /\ (value = "true" => parsed'.is_open)
        BY <2>2, <3>1 DEF Notes
      <4>2. ASSUME NEW i \in Given("open")', given'[i][2] = "true" PROVE parsed'.is_open
        <5>1. CASE i = Len(given) + 1
          BY <1>1, <4>1, <4>2, <5>1, GivenAppend
        <5>2. CASE i \in Given("open")
          <6>1. given'[i] = given[i]
            BY <1>1, <5>2, GivenAppend DEF Given
          <6>2. parsed.is_open
            BY <2>1, <4>2, <5>2, <6>1 DEF LocalsSay, OpenIsNoted
          <6> QED
            BY <2>2, <6>2 DEF Notes
        <5> QED
          BY <1>1, <3>1, <4>2, <5>1, <5>2, GivenAppend
      <4> QED
        BY <4>1, <4>2 DEF OpenIsNoted
    <3>2. CASE name # "open"
      <4>1. Given("open")' = Given("open") /\ \A i \in Given("open") : given'[i] = given[i]
        BY SMTT(90), <1>1, <3>2, GivenAppend DEF FieldName
      <4>2. OpenIsNoted
        BY <2>1 DEF LocalsSay
      <4>3. /\ parsed.is_open => parsed'.is_open
            /\ parsed.open_is_set => parsed'.open_is_set
        BY <2>2 DEF Notes
      <4> QED
        BY <4>1, <4>2, <4>3 DEF OpenIsNoted
    <3> QED
      BY <3>1, <3>2
  <2>5. NameIsNoted'
    <3>1. CASE name = "name"
      BY <2>2, <3>1 DEF Notes, NameIsNoted, LocalOf, Noted
    <3>2. CASE name # "name"
      <4>1. Given("name")' = Given("name")
        BY SMTT(90), <1>1, <3>2, GivenAppend DEF FieldName
      <4>2. LocalOf("name")' = LocalOf("name")
        BY <2>2, <3>2 DEF Notes, Noted
      <4> QED
        BY <2>1, <4>1, <4>2 DEF LocalsSay, NameIsNoted, LocalOf
    <3> QED
      BY <3>1, <3>2
  <2> QED
    BY <2>2, <2>3, <2>4, <2>5 DEF LocalsSay, Notes
<1> QED
  BY <1>2, <1>3 DEF SaidInv

(* Most fields leave the custom fields, the details and the type alone.     *)
LEMMA OtherNotes ==
  ASSUME IInv, NEW name, NEW value, DetailsAreKept,
         parsed'.new_type = parsed.new_type, UNCHANGED <<details, custom>>,
         \A other \in Noted \ {name} : LocalOf(other)' = LocalOf(other),
         name \in Noted => LocalOf(name)' = <<value>>,
         name = "name" => value # "",
         parsed.is_open => parsed'.is_open,
         parsed.open_is_set => parsed'.open_is_set,
         name = "open" => parsed'.open_is_set /\ (value = "true" => parsed'.is_open)
  PROVE  Notes(name, value)
BY DEF Notes, DetailsAreKept

LEMMA KeySays == ASSUME IInv, SaidInv, Key, ~Raise PROVE SaidInv'
<1>1. PICK value \in Text \cup {"bad"} :
        /\ Take("key", value, value = "bad" \/ ~May({"publish"}))
        /\ parsed' = [parsed EXCEPT !.vKey = IF value = "bad" THEN @ ELSE value]
        /\ UNCHANGED <<details, custom>>
  BY DEF Key, Take
<1>2. ASSUME value # "bad", DetailsAreKept PROVE Notes("key", value)
  <2>1. parsed' = [parsed EXCEPT !.vKey = value] /\ parsed \in Local
    BY <1>1, <1>2 DEF IInv, TypeOK
  <2>2. /\ parsed'.new_type = parsed.new_type /\ parsed'.is_open = parsed.is_open
        /\ parsed'.open_is_set = parsed.open_is_set
        /\ LocalOf("key")' = <<value>>
        /\ \A other \in Noted \ {"key"} : LocalOf(other)' = LocalOf(other)
    BY <2>1 DEF LocalOf, Noted, Local
  <2> QED
    BY <1>1, <1>2, <2>2, OtherNotes
<1> QED
  BY <1>1, <1>2, TakeSays DEF FieldName, Value, SaidInv

LEMMA DataSays == ASSUME IInv, SaidInv, Data, ~Raise PROVE SaidInv'
<1>1. PICK value \in Text \cup {"bad"} :
        /\ Take("data", value, value = "bad" \/ ~May({"publish"}))
        /\ parsed' = [parsed EXCEPT !.vValue = IF value = "bad" THEN @ ELSE value]
        /\ UNCHANGED <<details, custom>>
  BY DEF Data, Take
<1>2. ASSUME value # "bad", DetailsAreKept PROVE Notes("data", value)
  <2>1. parsed' = [parsed EXCEPT !.vValue = value] /\ parsed \in Local
    BY <1>1, <1>2 DEF IInv, TypeOK
  <2>2. /\ parsed'.new_type = parsed.new_type /\ parsed'.is_open = parsed.is_open
        /\ parsed'.open_is_set = parsed.open_is_set
        /\ LocalOf("data")' = <<value>>
        /\ \A other \in Noted \ {"data"} : LocalOf(other)' = LocalOf(other)
    BY <2>1 DEF LocalOf, Noted, Local
  <2> QED
    BY <1>1, <1>2, <2>2, OtherNotes
<1> QED
  BY <1>1, <1>2, TakeSays DEF FieldName, Value, SaidInv

LEMMA NameSays == ASSUME IInv, SaidInv, Name, ~Raise PROVE SaidInv'
<1>1. PICK value \in Text :
        /\ Take("name", value, value = "" \/ ~May({"create", "issue"}))
        /\ parsed' = [parsed EXCEPT !.entity_name = IF value = "" THEN @ ELSE value]
        /\ UNCHANGED <<details, custom>>
  BY DEF Name, Take
<1>2. ASSUME value # "", DetailsAreKept PROVE Notes("name", value)
  <2>1. parsed' = [parsed EXCEPT !.entity_name = value] /\ parsed \in Local
    BY <1>1, <1>2 DEF IInv, TypeOK
  <2>2. /\ parsed'.new_type = parsed.new_type /\ parsed'.is_open = parsed.is_open
        /\ parsed'.open_is_set = parsed.open_is_set
        /\ LocalOf("name")' = <<value>>
        /\ \A other \in Noted \ {"name"} : LocalOf(other)' = LocalOf(other)
    BY <2>1 DEF LocalOf, Noted, Local
  <2> QED
    BY <1>1, <1>2, <2>2, OtherNotes
<1> QED
  BY <1>1, <1>2, TakeSays DEF FieldName, Value, SaidInv

LEMMA MultipleSays == ASSUME IInv, SaidInv, Multiple, ~Raise PROVE SaidInv'
<1>1. PICK value \in {"1", "bad"} :
        /\ Take("multiple", value, value = "bad" \/ ~May({"issue"}))
        /\ parsed' = [parsed EXCEPT !.multiple = IF value = "bad" THEN @ ELSE <<value>>]
        /\ UNCHANGED <<details, custom>>
  BY DEF Multiple, Take
<1>2. ASSUME value # "bad", DetailsAreKept PROVE Notes("multiple", value)
  <2>1. parsed' = [parsed EXCEPT !.multiple = <<value>>] /\ parsed \in Local
    BY <1>1, <1>2 DEF IInv, TypeOK
  <2>2. /\ parsed'.new_type = parsed.new_type /\ parsed'.is_open = parsed.is_open
        /\ parsed'.open_is_set = parsed.open_is_set
        /\ LocalOf("multiple")' = <<value>>
        /\ \A other \in Noted \ {"multiple"} : LocalOf(other)' = LocalOf(other)
    BY <2>1 DEF LocalOf, Noted, Local
  <2> QED
    BY <1>1, <1>2, <2>2, OtherNotes
<1> QED
  BY <1>1, <1>2, TakeSays DEF FieldName, Value, SaidInv

LEMMA StartBlockSays == ASSUME IInv, SaidInv, StartBlock, ~Raise PROVE SaidInv'
<1>1. PICK value \in {"0", "1", "bad"} :
        /\ Take("startblock", value, value = "bad" \/ ~May({"upgrade"}))
        /\ parsed' = [parsed EXCEPT !.startblock = IF value = "bad" THEN @ ELSE <<value>>]
        /\ UNCHANGED <<details, custom>>
  BY DEF StartBlock, Take
<1>2. ASSUME value # "bad", DetailsAreKept PROVE Notes("startblock", value)
  <2>1. parsed' = [parsed EXCEPT !.startblock = <<value>>] /\ parsed \in Local
    BY <1>1, <1>2 DEF IInv, TypeOK
  <2>2. /\ parsed'.new_type = parsed.new_type /\ parsed'.is_open = parsed.is_open
        /\ parsed'.open_is_set = parsed.open_is_set
        /\ LocalOf("startblock")' = <<value>>
        /\ \A other \in Noted \ {"startblock"} : LocalOf(other)' = LocalOf(other)
    BY <2>1 DEF LocalOf, Noted, Local
  <2> QED
    BY <1>1, <1>2, <2>2, OtherNotes
<1> QED
  BY <1>1, <1>2, TakeSays DEF FieldName, Value, SaidInv

LEMMA OpenSays == ASSUME IInv, SaidInv, Open, ~Raise PROVE SaidInv'
<1>1. PICK value \in BOOLEAN :
        /\ Take("open", Bool(value), ~May({"create", "issue"}))
        /\ parsed' = [parsed EXCEPT !.is_open = @ \/ value, !.open_is_set = TRUE]
        /\ UNCHANGED <<details, custom>>
  BY DEF Open, Take
<1>2. /\ parsed'.open_is_set /\ parsed'.new_type = parsed.new_type
      /\ parsed'.is_open <=> parsed.is_open \/ value
      /\ \A other \in Noted : LocalOf(other)' = LocalOf(other)
  <2>1. parsed \in Local
    BY DEF IInv, TypeOK
  <2> QED
    BY <1>1, <2>1 DEF LocalOf, Noted, Local
<1>3. Bool(value) \in {"true", "false"} /\ (Bool(value) = "true" => value)
  BY DEF Bool
<1>4. DetailsAreKept => Notes("open", Bool(value))
  BY <1>1, <1>2, <1>3, OtherNotes DEF Noted
<1> QED
  BY <1>1, <1>3, <1>4, TakeSays DEF FieldName, Value, SaidInv

LEMMA ApproveSays == ASSUME IInv, SaidInv, Approve, ~Raise PROVE SaidInv'
<1>1. PICK value \in BOOLEAN :
        /\ Take("approve", Bool(value), ~May({"approval"}))
        /\ parsed' = [parsed EXCEPT !.approve = <<value>>]
        /\ UNCHANGED <<details, custom>>
  BY DEF Approve, Take
<1>2. /\ parsed'.open_is_set = parsed.open_is_set /\ parsed'.new_type = parsed.new_type
      /\ parsed'.is_open = parsed.is_open
      /\ \A other \in Noted : LocalOf(other)' = LocalOf(other)
  <2>1. parsed \in Local
    BY DEF IInv, TypeOK
  <2> QED
    BY <1>1, <2>1 DEF LocalOf, Noted, Local
<1>3. Bool(value) \in {"true", "false"}
  BY DEF Bool
<1>4. DetailsAreKept => Notes("approve", Bool(value))
  BY <1>1, <1>2, OtherNotes DEF Noted
<1> QED
  BY <1>1, <1>3, <1>4, TakeSays DEF FieldName, Value, SaidInv

LEMMA CreateSays == ASSUME IInv, SaidInv, Create, ~Raise PROVE SaidInv'
<1>1. PICK value \in {"stream", "asset", "upgrade", "bad"} : \E error \in BOOLEAN :
        /\ Take("create", value, error)
        /\ ~error => parsed.new_type = "none" /\ parsed' = [parsed EXCEPT !.new_type = value]
        /\ UNCHANGED <<details, custom>>
  BY DEF Create, Take
<1>2. PICK error \in BOOLEAN :
        /\ Take("create", value, error)
        /\ ~error => parsed.new_type = "none" /\ parsed' = [parsed EXCEPT !.new_type = value]
        /\ UNCHANGED <<details, custom>>
  BY <1>1
<1>3. ASSUME ~error, DetailsAreKept PROVE Notes("create", value)
  <2>1. /\ parsed'.open_is_set = parsed.open_is_set /\ parsed'.is_open = parsed.is_open
        /\ \A other \in Noted : LocalOf(other)' = LocalOf(other)
    <3>1. parsed \in Local
      BY DEF IInv, TypeOK
    <3> QED
      BY <1>2, <1>3, <3>1 DEF LocalOf, Noted, Local
  <2>2. details = custom
    BY <1>2, <1>3 DEF DetailsAreKept
  <2>3. DetailsAreKept'
    BY <1>2, <2>2 DEF DetailsAreKept
  <2> QED
    BY <2>1, <2>3 DEF Notes, Noted
<1> QED
  BY <1>2, <1>3, TakeSays DEF FieldName, Value, SaidInv

LEMMA InputCacheSays == ASSUME IInv, SaidInv, InputCache, ~Raise PROVE SaidInv'
<1>1. PICK value \in {"empty", "entry", "bad", "no array"} : \E error \in BOOLEAN :
        /\ Take("inputcache", value, error)
        /\ parsed' = [parsed EXCEPT !.new_type = "cache"]
        /\ UNCHANGED custom
  BY DEF InputCache, Take
<1>2. PICK error \in BOOLEAN :
        /\ Take("inputcache", value, error)
        /\ parsed' = [parsed EXCEPT !.new_type = "cache"]
        /\ UNCHANGED custom
  BY <1>1
<1>3. Notes("inputcache", value)
  <2>1. parsed \in Local
    BY DEF IInv, TypeOK
  <2>2. /\ parsed'.open_is_set = parsed.open_is_set /\ parsed'.is_open = parsed.is_open
        /\ \A other \in Noted : LocalOf(other)' = LocalOf(other)
        /\ parsed'.new_type = "cache"
    BY <1>2, <2>1 DEF LocalOf, Noted, Local
  <2> QED
    BY <2>2 DEF Notes, Noted, DetailsAreKept
<1> QED
  BY <1>2, <1>3, TakeSays DEF FieldName, Value, SaidInv

LEMMA OneMore ==
  ASSUME NEW S, NEW s \in Seq(S), NEW t \in {<<>>} \cup {<<f>> : f \in S}
  PROVE  s \o t \in Seq(S)
<1>1. t \in Seq(S)
  <2>1. <<>> \in Seq(S) /\ \A f \in S : <<f>> \in Seq(S)
    OBVIOUS
  <2> QED
    BY <2>1
<1> QED
  BY <1>1

(* Custom fields are kept in the order they come.                           *)
LEMMA DetailsSays == ASSUME IInv, SaidInv, Details, ~Raise PROVE SaidInv'
<1>1. PICK fields \in {<<>>} \cup {<<f>> : f \in Field} :
        \E value \in {"object", "no object"}, error \in BOOLEAN :
          /\ Take("details", value, error)
          /\ parsed' = parsed \/ parsed' = [parsed EXCEPT !.protocol_version = 1]
          /\ \/ details' = details \o fields /\ custom' = custom \o fields
             \/ UNCHANGED <<details, custom>>
  <2>1. CASE \E fields \in {<<>>} \cup {<<f>> : f \in Field}, version \in {-1, 0, 1} :
               /\ Take("details", "object",
                       \/ parsed.new_type = "cache"
                       \/ version = 0
                       \/ ~May({"create", "issue", "follow-on"}))
               /\ parsed' = [parsed EXCEPT !.protocol_version = IF version = 1 THEN 1 ELSE @]
               /\ details' = details \o fields
               /\ custom' = custom \o fields
    <3>1. PICK fields \in {<<>>} \cup {<<f>> : f \in Field}, version \in {-1, 0, 1} :
               /\ Take("details", "object",
                       \/ parsed.new_type = "cache"
                       \/ version = 0
                       \/ ~May({"create", "issue", "follow-on"}))
               /\ parsed' = [parsed EXCEPT !.protocol_version = IF version = 1 THEN 1 ELSE @]
               /\ details' = details \o fields
               /\ custom' = custom \o fields
      BY <2>1
    <3>2. parsed' = parsed \/ parsed' = [parsed EXCEPT !.protocol_version = 1]
      BY <3>1 DEF IInv, TypeOK, Local
    <3>3. \E error \in BOOLEAN : Take("details", "object", error)
      BY <3>1
    <3> QED
      BY <3>1, <3>2, <3>3
  <2>2. CASE /\ Take("details", "no object",
                     parsed.new_type = "cache" \/ ~May({"create", "issue", "follow-on"}))
             /\ UNCHANGED <<parsed, details, custom>>
    <3>1. \E error \in BOOLEAN : Take("details", "no object", error)
      BY <2>2
    <3> QED
      BY <2>2, <3>1
  <2> QED
    BY <2>1, <2>2 DEF Details
<1>2. PICK value \in {"object", "no object"}, error \in BOOLEAN :
        /\ Take("details", value, error)
        /\ parsed' = parsed \/ parsed' = [parsed EXCEPT !.protocol_version = 1]
        /\ \/ details' = details \o fields /\ custom' = custom \o fields
           \/ UNCHANGED <<details, custom>>
  BY <1>1
<1>3. custom' \in Seq(Field)
  <2>1. custom \in Seq(Field)
    BY DEF SaidInv
  <2>2. custom \o fields \in Seq(Field)
    BY <2>1, OneMore
  <2> QED
    BY <1>2, <2>1, <2>2
<1>4. ASSUME DetailsAreKept PROVE Notes("details", value)
  <2>1. parsed \in Local
    BY DEF IInv, TypeOK
  <2>2. /\ parsed'.open_is_set = parsed.open_is_set /\ parsed'.is_open = parsed.is_open
        /\ \A other \in Noted : LocalOf(other)' = LocalOf(other)
        /\ parsed'.new_type = parsed.new_type
    BY <1>2, <2>1 DEF LocalOf, Noted, Local
  <2>3. ASSUME parsed.new_type # "cache" PROVE details' = custom'
    <3>1. details = custom
      BY <1>4, <2>3 DEF DetailsAreKept
    <3> QED
      BY ONLY <1>2, <3>1
  <2>4. DetailsAreKept'
    BY <2>2, <2>3 DEF DetailsAreKept
  <2> QED
    BY <2>2, <2>4 DEF Notes, Noted
<1> QED
  BY <1>2, <1>3, <1>4, TakeSays DEF FieldName, Value

LEMMA WrongSays == ASSUME IInv, SaidInv, For \/ Update \/ Unknown, ~Raise PROVE SaidInv'
<1>1. PICK name \in {"for", "update", "unknown"} : \E value \in {"", "bad"} : Take(name, value, TRUE)
  BY DEF For, Update, Unknown
<1>2. custom' \in Seq(Field)
  BY <1>1 DEF Take, SaidInv
<1> QED
  BY <1>1, <1>2, TakeSays DEF FieldName, Value

LEMMA SameSaid ==
  ASSUME SaidInv, UNCHANGED <<given, custom, parsed, details, failed>>
  PROVE  custom' \in Seq(Field) /\ (~failed' => LocalsSay')
<1>1. ASSUME LocalsSay PROVE LocalsSay'
  <2>1. \A name : Given(name)' = Given(name) /\ LastOf(name)' = LastOf(name)
    BY DEF Given, LastOf
  <2>2. \A name \in Noted : LocalOf(name)' = LocalOf(name)
    BY DEF LocalOf
  <2>3. ASSUME NEW name \in Noted PROVE LastIsNoted(name)'
    BY <1>1, <2>1, <2>2, <2>3 DEF LocalsSay, LastIsNoted
  <2>4. OpenIsNoted' /\ NameIsNoted' /\ DetailsAreKept'
    BY <1>1, <2>1 DEF LocalsSay, OpenIsNoted, NameIsNoted, DetailsAreKept
  <2> QED
    BY <2>3, <2>4 DEF LocalsSay
<1> QED
  BY <1>1 DEF SaidInv

LEMMA FinishSays == ASSUME IInv, SaidInv, Finish PROVE SaidInv'
<1>1. UNCHANGED <<hasEntity, given, custom, parsed, details, failed>>
  BY DEF Finish
<1>2. ASSUME Accepted', script'[1].kind \in NewEntity
      PROVE  script'[1] = [kind |-> Type, params |-> details \o SpecialParams]
  <2>1. script' = Pieces(details \o SpecialParams)
    BY <1>2 DEF Finish, Accepted
  <2>2. Type \in {"asset", "stream", "upgrade", "follow-on", "cache"}
    BY DEF Type, IInv, TypeOK, Local, NewType
  <2> HIDE DEF Accepted
  <2> DEFINE params == details \o SpecialParams
  <2> HIDE DEF params
  <2>3. script' = Pieces(params)
    BY <2>1 DEF params
  <2>4. CASE Type = "follow-on"
    <3>1. script' = <<[kind |-> "entity", params |-> <<>>], [kind |-> "follow-on", params |-> params]>>
      BY <2>3, <2>4 DEF Pieces
    <3>2. script'[1] = [kind |-> "entity", params |-> <<>>]
      BY <3>1
    <3> QED
      BY <1>2, <3>2 DEF NewEntity
  <2>5. CASE Type # "follow-on"
    <3>1. script' = <<[kind |-> Type, params |-> params]>>
      BY <2>2, <2>3, <2>5 DEF Pieces
    <3>2. script'[1] = [kind |-> Type, params |-> params]
      BY <3>1
    <3> QED
      BY <3>2 DEF params
  <2> QED
    BY <2>4, <2>5
<1>3. Type' = Type /\ SpecialParams' = SpecialParams
  BY <1>1 DEF Type, SpecialParams
<1>4. custom' \in Seq(Field) /\ (~failed' => LocalsSay')
  BY <1>1, SameSaid
<1> QED
  BY <1>1, <1>2, <1>3, <1>4 DEF SaidInv

LEMMA ParseStringSays == ASSUME IInv, SaidInv, ParseString PROVE SaidInv'
<1>1. UNCHANGED <<given, custom, parsed, details, failed>>
  BY DEF ParseString
<1>2. ASSUME status' = "ok" PROVE script' = <<>> \/ script'[1].kind = "data"
  <2>1. PICK value : script' \in {<<>>, <<[kind |-> "data", params |-> <<<<"data", value>>>>]>>}
    BY <1>2 DEF ParseString
  <2>2. CASE script' = <<[kind |-> "data", params |-> <<<<"data", value>>>>]>>
    <3>1. script'[1] = [kind |-> "data", params |-> <<<<"data", value>>>>]
      BY <2>2
    <3> QED
      BY <3>1
  <2> QED
    BY <2>1, <2>2
<1>3. custom' \in Seq(Field) /\ (~failed' => LocalsSay')
  BY <1>1, SameSaid
<1> QED
  BY <1>2, <1>3 DEF SaidInv, Accepted

LEMMA RaiseSays == ASSUME IInv, SaidInv, Raise PROVE SaidInv'
<1>1. status' = "thrown" /\ UNCHANGED <<given, custom, parsed, details, failed>>
  BY DEF Raise
<1>2. custom' \in Seq(Field) /\ (~failed' => LocalsSay')
  BY <1>1, SameSaid
<1> QED
  BY <1>1, <1>2 DEF SaidInv, Accepted

LEMMA NextSays == ASSUME IInv, SaidInv, [Next]_vars PROVE SaidInv'
<1>1. CASE UNCHANGED vars
  <2>1. custom' \in Seq(Field) /\ (~failed' => LocalsSay')
    BY <1>1, SameSaid DEF vars
  <2> QED
    BY <1>1, <2>1 DEF vars, SaidInv, Accepted, Type, SpecialParams
<1>2. CASE Raise
  BY <1>2, RaiseSays
<1>3. CASE ~Raise /\ Next
  BY <1>3, InputCacheSays, CreateSays, WrongSays, KeySays, DataSays, NameSays, MultipleSays,
     StartBlockSays, OpenSays, ApproveSays, DetailsSays, FinishSays, ParseStringSays DEF Next
<1> QED
  BY <1>1, <1>2, <1>3

THEOREM SaidInvariant == Spec => [](IInv /\ SaidInv)
<1>1. Init => SaidInv
  BY InitSaid
<1>2. IInv /\ SaidInv /\ [Next]_vars => SaidInv'
  BY NextSays
<1> QED
  BY <1>1, <1>2, InitIInv, NextIsGood, PTL DEF Spec

-----------------------------------------------------------------------------
(* What comes first in a script are the custom fields.                      *)
LEMMA FirstsAreKept ==
  ASSUME NEW S, NEW s \in Seq(S), NEW t \in Seq(S)
  PROVE  SubSeq(s \o t, 1, Len(s)) = s
<1>1. Len(SubSeq(s \o t, 1, Len(s))) = Len(s)
  OBVIOUS
<1>2. \A i \in 1 .. Len(s) : SubSeq(s \o t, 1, Len(s))[i] = s[i]
  OBVIOUS
<1>3. SubSeq(s \o t, 1, Len(s)) \in Seq(S)
  OBVIOUS
<1> QED
  BY <1>1, <1>2, <1>3

(* A special parameter follows them, wherever it is in the sequence.        *)
LEMMA PartsAreSaid ==
  ASSUME NEW S, NEW s \in Seq(S), NEW a \in Seq(S), NEW b \in Seq(S), NEW c \in Seq(S),
         NEW code, NEW value, <<<<code, value>>>> \in {a, b, c}
  PROVE  Says(s \o (a \o b \o c), code, value)
<1> DEFINE t == a \o b \o c
           say == <<code, value>>
<1>1. t \in Seq(S) /\ Len(t) = Len(a) + Len(b) + Len(c)
  OBVIOUS
<1>2. /\ \A i \in 1 .. Len(a) : t[i] = a[i]
      /\ \A i \in 1 .. Len(b) : t[Len(a) + i] = b[i]
      /\ \A i \in 1 .. Len(c) : t[Len(a) + Len(b) + i] = c[i]
  OBVIOUS
<1>3. ASSUME NEW d, d = <<say>> PROVE Len(d) = 1 /\ d[1] = say
  BY <1>3
<1> HIDE DEF say, t
<1>4. \E i \in 1 .. Len(t) : t[i] = say
  <2>1. CASE a = <<say>>
    <3>1. t[1] = say /\ 1 \in 1 .. Len(t)
      BY <1>1, <1>2, <1>3, <2>1
    <3> QED
      BY <3>1
  <2>2. CASE b = <<say>>
    <3>1. t[Len(a) + 1] = say /\ Len(a) + 1 \in 1 .. Len(t)
      BY <1>1, <1>2, <1>3, <2>2
    <3> QED
      BY <3>1
  <2>3. CASE c = <<say>>
    <3>1. t[Len(a) + Len(b) + 1] = say /\ Len(a) + Len(b) + 1 \in 1 .. Len(t)
      BY <1>1, <1>2, <1>3, <2>3
    <3> QED
      BY <3>1
  <2> QED
    BY <2>1, <2>2, <2>3 DEF say
<1>5. PICK i \in 1 .. Len(t) : t[i] = say
  BY <1>4
<1>6. Len(s) + i \in 1 .. Len(s \o t) /\ (s \o t)[Len(s) + i] = say
  BY <1>1, <1>5
<1>7. Says(s \o t, code, value)
  BY <1>6 DEF Says, say
<1> QED
  BY <1>7 DEF t

(* The special parameters, and those a new entity may have.                 *)
Param ==
  {"NAME", "FOLLOW_ONS", "ASSET_MULTIPLE", "ANYONE_CAN_WRITE", "UPGRADE_PROTOCOL_VERSION",
   "UPGRADE_START_BLOCK"} \X (Text \cup {"1"})

(* The script of a new entity, of what it is said to hold.                  *)
NewEntityIs(params, a, b, c) ==
  /\ a \in Seq(Param) /\ b \in Seq(Param) /\ c \in Seq(Param)
  /\ params = custom \o (a \o b \o c)

LEMMA PartsOfEntity ==
  ASSUME NEW params, NEW a, NEW b, NEW c, NewEntityIs(params, a, b, c), custom \in Seq(Field)
  PROVE  /\ SubSeq(params, 1, Len(custom)) = custom
         /\ \A code, value : <<<<code, value>>>> \in {a, b, c} => Says(params, code, value)
<1> DEFINE S == Field \cup Param
<1>1. custom \in Seq(S) /\ a \in Seq(S) /\ b \in Seq(S) /\ c \in Seq(S)
  BY DEF NewEntityIs
<1>2. a \o b \o c \in Seq(S) /\ params = custom \o (a \o b \o c)
  BY <1>1 DEF NewEntityIs
<1> HIDE DEF S
<1>3. SubSeq(params, 1, Len(custom)) = custom
  BY <1>1, <1>2, FirstsAreKept
<1>4. ASSUME NEW code, NEW value, <<<<code, value>>>> \in {a, b, c} PROVE Says(params, code, value)
  BY <1>1, <1>2, <1>4, PartsAreSaid
<1> QED
  BY <1>3, <1>4

(* What is known of an accepted object that makes a new entity.             *)
LEMMA AcceptedSays ==
  ASSUME IInv, SaidInv, Accepted, script[1].kind \in NewEntity
  PROVE  /\ script[1].kind = Type /\ script[1].params = custom \o SpecialParams
         /\ details = custom /\ custom \in Seq(Field) /\ parsed \in Local
         /\ ~Rejected /\ LocalsSay
<1>1. script[1] = [kind |-> Type, params |-> details \o SpecialParams] /\ ~failed /\ ~Rejected
  BY DEF IInv, AcceptedInv, SaidInv
<1>2. script[1].kind = Type /\ script[1].params = details \o SpecialParams
  BY <1>1
<1>3. LocalsSay /\ custom \in Seq(Field)
  BY <1>1 DEF SaidInv
<1>4. parsed.new_type # "cache"
  BY <1>2 DEF NewEntity, Type
<1>5. details = custom
  BY <1>3, <1>4 DEF LocalsSay, DetailsAreKept
<1> QED
  BY <1>1, <1>2, <1>3, <1>5 DEF IInv, TypeOK

(* Each kind of entity, with the values that the fields before said.        *)
NameParam == SpecialIf(parsed.entity_name # "", "NAME", parsed.entity_name)

LEMMA NameIsSeq == ASSUME parsed \in Local PROVE NameParam \in Seq(Param)
<1>1. parsed.entity_name \in Text
  BY DEF Local
<1>2. NameParam \in {<<>>, <<<<"NAME", parsed.entity_name>>>>}
  BY DEF NameParam, SpecialIf
<1>3. <<>> \in Seq(Param) /\ <<<<"NAME", parsed.entity_name>>>> \in Seq(Param)
  BY <1>1 DEF Param
<1> QED
  BY <1>2, <1>3, Zenon

LEMMA NameSaid ==
  ASSUME LocalsSay, Given("name") # {}
  PROVE  NameParam = <<<<"NAME", LastOf("name")>>>>
<1>1. <<parsed.entity_name>> = <<LastOf("name")>> /\ parsed.entity_name # ""
  BY DEF LocalsSay, LastIsNoted, NameIsNoted, LocalOf, Noted
<1>2. parsed.entity_name = LastOf("name")
  BY <1>1
<1> QED
  BY <1>1, <1>2 DEF NameParam, SpecialIf

LEMMA AssetIs ==
  ASSUME parsed \in Local, Type = "asset", custom \in Seq(Field)
  PROVE  NewEntityIs(custom \o SpecialParams, SpecialIf(parsed.is_open, "FOLLOW_ONS", "1"),
                     SpecialIf(parsed.multiple # None, "ASSET_MULTIPLE", parsed.multiple[1]), NameParam)
<1> DEFINE a == SpecialIf(parsed.is_open, "FOLLOW_ONS", "1")
           b == SpecialIf(parsed.multiple # None, "ASSET_MULTIPLE", parsed.multiple[1])
<1>1. SpecialParams = a \o b \o NameParam
  BY DEF SpecialParams, NameParam
<1>2. a \in Seq(Param)
  <2>1. a \in {<<>>, <<<<"FOLLOW_ONS", "1">>>>}
    BY DEF SpecialIf
  <2>2. <<>> \in Seq(Param) /\ <<<<"FOLLOW_ONS", "1">>>> \in Seq(Param)
    BY DEF Param
  <2> HIDE DEF a
  <2> QED
    BY <2>1, <2>2, Zenon
<1>3. b \in Seq(Param)
  <2>1. parsed.multiple # None => parsed.multiple[1] = "1"
    BY DEF Local
  <2>2. b \in {<<>>, <<<<"ASSET_MULTIPLE", "1">>>>}
    BY <2>1 DEF SpecialIf
  <2>3. <<>> \in Seq(Param) /\ <<<<"ASSET_MULTIPLE", "1">>>> \in Seq(Param)
    BY DEF Param
  <2> HIDE DEF b
  <2> QED
    BY <2>2, <2>3, Zenon
<1> HIDE DEF a, b
<1>4. NewEntityIs(custom \o SpecialParams, a, b, NameParam)
  BY <1>1, <1>2, <1>3, NameIsSeq DEF NewEntityIs
<1> QED
  BY <1>4 DEF a, b

LEMMA StreamIs ==
  ASSUME parsed \in Local, Type = "stream", custom \in Seq(Field)
  PROVE  NewEntityIs(custom \o SpecialParams, <<>>, NameParam,
                     SpecialIf(parsed.is_open, "ANYONE_CAN_WRITE", "1"))
<1> DEFINE b == SpecialIf(parsed.is_open, "ANYONE_CAN_WRITE", "1")
<1>1. SpecialParams = NameParam \o b
  BY DEF SpecialParams, NameParam
<1>2. b \in Seq(Param)
  <2>1. b \in {<<>>, <<<<"ANYONE_CAN_WRITE", "1">>>>}
    BY DEF SpecialIf
  <2>2. <<>> \in Seq(Param) /\ <<<<"ANYONE_CAN_WRITE", "1">>>> \in Seq(Param)
    BY DEF Param
  <2> HIDE DEF b
  <2> QED
    BY <2>1, <2>2, Zenon
<1>3. NameParam \in Seq(Param) /\ <<>> \in Seq(Param)
  <2>1. <<>> \in Seq(Param)
    OBVIOUS
  <2> QED
    BY <2>1, NameIsSeq
<1> HIDE DEF b
<1>4. SpecialParams = <<>> \o NameParam \o b
  BY <1>1, <1>2, <1>3
<1>5. NewEntityIs(custom \o SpecialParams, <<>>, NameParam, b)
  BY <1>2, <1>3, <1>4 DEF NewEntityIs
<1> QED
  BY <1>5 DEF b

LEMMA UpgradeIs ==
  ASSUME parsed \in Local, Type = "upgrade", custom \in Seq(Field)
  PROVE  NewEntityIs(custom \o SpecialParams, NameParam, <<<<"UPGRADE_PROTOCOL_VERSION", "1">>>>,
                     SpecialIf(parsed.startblock = <<"1">>, "UPGRADE_START_BLOCK", "1"))
<1> DEFINE b == SpecialIf(TRUE, "UPGRADE_PROTOCOL_VERSION", "1")
           c == SpecialIf(parsed.startblock = <<"1">>, "UPGRADE_START_BLOCK", "1")
<1>1. SpecialParams = NameParam \o b \o c
  BY DEF SpecialParams, NameParam
<1>2. b \in Seq(Param) /\ c \in Seq(Param)
  <2>1. /\ b \in {<<>>, <<<<"UPGRADE_PROTOCOL_VERSION", "1">>>>}
        /\ c \in {<<>>, <<<<"UPGRADE_START_BLOCK", "1">>>>}
    BY DEF SpecialIf
  <2>2. /\ <<>> \in Seq(Param)
        /\ <<<<"UPGRADE_PROTOCOL_VERSION", "1">>>> \in Seq(Param)
        /\ <<<<"UPGRADE_START_BLOCK", "1">>>> \in Seq(Param)
    BY DEF Param
  <2> HIDE DEF b, c
  <2> QED
    BY <2>1, <2>2, Zenon
<1>3. b = <<<<"UPGRADE_PROTOCOL_VERSION", "1">>>>
  BY DEF SpecialIf
<1> HIDE DEF b, c
<1>4. NewEntityIs(custom \o SpecialParams, NameParam, b, c)
  BY <1>1, <1>2, NameIsSeq DEF NewEntityIs
<1> QED
  BY <1>3, <1>4 DEF c

(* What is said of any new entity.                                          *)
LEMMA EntitySays ==
  ASSUME IInv, LocalsSay, ~Rejected, Type \in NewEntity, custom \in Seq(Field),
         NEW params, NEW a, NEW b, NEW c, NewEntityIs(params, a, b, c), NameParam \in {a, b, c}
  PROVE  /\ SubSeq(params, 1, Len(custom)) = custom
         /\ Given("name") # {} => Says(params, "NAME", LastOf("name"))
         /\ \A name \in {"key", "data"} : Given(name) # {} => LastOf(name) = ""
<1>1. SubSeq(params, 1, Len(custom)) = custom
  BY PartsOfEntity
<1>2. ASSUME Given("name") # {} PROVE Says(params, "NAME", LastOf("name"))
  BY <1>2, NameSaid, PartsOfEntity
<1>3. parsed.vKey = "" /\ parsed.vValue = ""
  BY DEF Rejected, NewEntity
<1>4. ASSUME Given("key") # {} PROVE LastOf("key") = ""
  <2>1. <<parsed.vKey>> = <<LastOf("key")>>
    BY <1>4 DEF LocalsSay, LastIsNoted, LocalOf, Noted
  <2> QED
    BY <1>3, <2>1
<1>5. ASSUME Given("data") # {} PROVE LastOf("data") = ""
  <2>1. <<parsed.vValue>> = <<LastOf("data")>>
    BY <1>5 DEF LocalsSay, LastIsNoted, LocalOf, Noted
  <2> QED
    BY <1>3, <2>1
<1> QED
  BY <1>1, <1>2, <1>4, <1>5

LEMMA AssetIsComplete ==
  ASSUME IInv, LocalsSay, ~Rejected, parsed \in Local, Type = "asset", custom \in Seq(Field),
         NEW params, params = custom \o SpecialParams
  PROVE  /\ Given("multiple") # {} => Says(params, "ASSET_MULTIPLE", LastOf("multiple"))
         /\ Given("startblock") = {}
         /\ (\E i \in Given("open") : given[i][2] = "true") => Says(params, "FOLLOW_ONS", "1")
         /\ SubSeq(params, 1, Len(custom)) = custom
         /\ Given("name") # {} => Says(params, "NAME", LastOf("name"))
         /\ \A name \in {"key", "data"} : Given(name) # {} => LastOf(name) = ""
<1> DEFINE a == SpecialIf(parsed.is_open, "FOLLOW_ONS", "1")
           b == SpecialIf(parsed.multiple # None, "ASSET_MULTIPLE", parsed.multiple[1])
<1>1. NewEntityIs(params, a, b, NameParam)
  BY AssetIs
<1>2. parsed.is_open => a = <<<<"FOLLOW_ONS", "1">>>>
  BY DEF SpecialIf
<1>3. ASSUME Given("multiple") # {} PROVE b = <<<<"ASSET_MULTIPLE", LastOf("multiple")>>>>
  <2>1. parsed.multiple = <<LastOf("multiple")>>
    BY <1>3 DEF LocalsSay, LastIsNoted, LocalOf, Noted
  <2>2. parsed.multiple # None /\ parsed.multiple[1] = LastOf("multiple")
    BY <2>1 DEF None
  <2> QED
    BY <2>2 DEF SpecialIf
<1> HIDE DEF a, b
<1>4. Given("startblock") = {}
  <2> SUFFICES ASSUME Given("startblock") # {} PROVE FALSE
    OBVIOUS
  <2>1. parsed.startblock = <<LastOf("startblock")>>
    BY DEF LocalsSay, LastIsNoted, LocalOf, Noted
  <2>2. parsed.startblock # None
    BY <2>1 DEF None
  <2> QED
    BY <2>2 DEF Rejected
<1>5. ASSUME NEW i \in Given("open"), given[i][2] = "true" PROVE Says(params, "FOLLOW_ONS", "1")
  BY <1>1, <1>2, <1>5, PartsOfEntity DEF LocalsSay, OpenIsNoted
<1>6. Given("multiple") # {} => Says(params, "ASSET_MULTIPLE", LastOf("multiple"))
  BY <1>1, <1>3, PartsOfEntity
<1>7. Type \in NewEntity /\ NameParam \in {a, b, NameParam}
  BY DEF NewEntity
<1> QED
  BY <1>1, <1>4, <1>5, <1>6, <1>7, EntitySays

LEMMA StreamIsComplete ==
  ASSUME IInv, LocalsSay, ~Rejected, parsed \in Local, Type = "stream", custom \in Seq(Field),
         NEW params, params = custom \o SpecialParams
  PROVE  /\ Given("multiple") = {} /\ Given("startblock") = {}
         /\ (\E i \in Given("open") : given[i][2] = "true") => Says(params, "ANYONE_CAN_WRITE", "1")
         /\ SubSeq(params, 1, Len(custom)) = custom
         /\ Given("name") # {} => Says(params, "NAME", LastOf("name"))
         /\ \A name \in {"key", "data"} : Given(name) # {} => LastOf(name) = ""
<1> DEFINE b == SpecialIf(parsed.is_open, "ANYONE_CAN_WRITE", "1")
<1>1. NewEntityIs(params, <<>>, NameParam, b)
  BY StreamIs
<1>2. parsed.is_open => b = <<<<"ANYONE_CAN_WRITE", "1">>>>
  BY DEF SpecialIf
<1> HIDE DEF b
<1>3. Given("startblock") = {} /\ Given("multiple") = {}
  <2>1. ASSUME Given("startblock") # {} PROVE parsed.startblock # None
    <3>1. parsed.startblock = <<LastOf("startblock")>>
      BY <2>1 DEF LocalsSay, LastIsNoted, LocalOf, Noted
    <3> QED
      BY <3>1 DEF None
  <2>2. ASSUME Given("multiple") # {} PROVE parsed.multiple # None
    <3>1. parsed.multiple = <<LastOf("multiple")>>
      BY <2>2 DEF LocalsSay, LastIsNoted, LocalOf, Noted
    <3> QED
      BY <3>1 DEF None
  <2> QED
    BY <2>1, <2>2 DEF Rejected
<1>4. ASSUME NEW i \in Given("open"), given[i][2] = "true" PROVE Says(params, "ANYONE_CAN_WRITE", "1")
  BY <1>1, <1>2, <1>4, PartsOfEntity DEF LocalsSay, OpenIsNoted
<1>5. Type \in NewEntity /\ NameParam \in {<<>>, NameParam, b}
  BY DEF NewEntity
<1> QED
  BY <1>1, <1>3, <1>4, <1>5, EntitySays

(* An upgrade has no custom fields, and cannot be open or have a multiple.  *)
LEMMA UpgradeIsComplete ==
  ASSUME IInv, LocalsSay, ~Rejected, parsed \in Local, Type = "upgrade", custom \in Seq(Field),
         details = custom, NEW params, params = custom \o SpecialParams
  PROVE  /\ Given("multiple") = {} /\ Given("open") = {}
         /\ Given("startblock") # {} =>
              (LastOf("startblock") = "1" <=> Says(params, "UPGRADE_START_BLOCK", "1"))
         /\ SubSeq(params, 1, Len(custom)) = custom
         /\ Given("name") # {} => Says(params, "NAME", LastOf("name"))
         /\ \A name \in {"key", "data"} : Given(name) # {} => LastOf(name) = ""
<1> DEFINE b == <<<<"UPGRADE_PROTOCOL_VERSION", "1">>>>
           c == SpecialIf(parsed.startblock = <<"1">>, "UPGRADE_START_BLOCK", "1")
<1>1. NewEntityIs(params, NameParam, b, c)
  BY UpgradeIs
<1>2. Given("multiple") = {} /\ Given("open") = {}
  <2>1. ASSUME Given("multiple") # {} PROVE parsed.multiple # None
    <3>1. parsed.multiple = <<LastOf("multiple")>>
      BY <2>1 DEF LocalsSay, LastIsNoted, LocalOf, Noted
    <3> QED
      BY <3>1 DEF None
  <2>2. Given("open") # {} => parsed.open_is_set
    BY DEF LocalsSay, OpenIsNoted
  <2> QED
    BY <2>1, <2>2 DEF Rejected
<1>3. custom = <<>>
  BY DEF Rejected
<1>4. /\ parsed.startblock = <<"1">> => c = <<<<"UPGRADE_START_BLOCK", "1">>>>
      /\ parsed.startblock # <<"1">> => c = <<>>
  BY DEF SpecialIf
<1>5. ASSUME Given("startblock") # {}
      PROVE  LastOf("startblock") = "1" <=> Says(params, "UPGRADE_START_BLOCK", "1")
  <2>1. parsed.startblock = <<LastOf("startblock")>>
    BY <1>5 DEF LocalsSay, LastIsNoted, LocalOf, Noted
  <2>2. CASE LastOf("startblock") = "1"
    <3>1. c = <<<<"UPGRADE_START_BLOCK", "1">>>>
      BY <1>4, <2>1, <2>2
    <3> QED
      BY <1>1, <2>2, <3>1, PartsOfEntity
  <2>3. CASE LastOf("startblock") # "1"
    <3>1. parsed.startblock # <<"1">>
      BY <2>1, <2>3
    <3>2. c = <<>>
      BY <1>4, <3>1
    <3> HIDE DEF c
    <3>3. params = <<>> \o (NameParam \o b \o <<>>)
      BY <1>1, <1>3, <3>2 DEF NewEntityIs
    <3>4. NameParam \in {<<>>, <<<<"NAME", parsed.entity_name>>>>}
      BY DEF NameParam, SpecialIf
    <3>5. CASE NameParam = <<>>
      <4>1. Len(params) = 1 /\ params[1] = <<"UPGRADE_PROTOCOL_VERSION", "1">>
        BY <3>3, <3>5
      <4> QED
        BY <2>3, <4>1 DEF Says
    <3>6. CASE NameParam = <<<<"NAME", parsed.entity_name>>>>
      <4>1. /\ Len(params) = 2 /\ params[1] = <<"NAME", parsed.entity_name>>
            /\ params[2] = <<"UPGRADE_PROTOCOL_VERSION", "1">>
        BY <3>3, <3>6
      <4> QED
        BY <2>3, <4>1 DEF Says
    <3> QED
      BY <3>4, <3>5, <3>6
  <2> QED
    BY <2>2, <2>3
<1> HIDE DEF b, c
<1>6. Type \in NewEntity /\ NameParam \in {NameParam, b, c}
  BY DEF NewEntity
<1> QED
  BY <1>1, <1>2, <1>5, <1>6, EntitySays

LEMMA SaidIsComplete == ASSUME IInv, SaidInv PROVE NewEntityIsComplete
<1> SUFFICES ASSUME Accepted, script[1].kind \in NewEntity PROVE NewEntityIsComplete
  BY DEF NewEntityIsComplete, NewEntity
<1> DEFINE params == script[1].params
<1>1. /\ script[1].kind = Type /\ params = custom \o SpecialParams
      /\ details = custom /\ custom \in Seq(Field) /\ parsed \in Local
      /\ ~Rejected /\ LocalsSay
  BY AcceptedSays
<1>2. SUFFICES
        /\ SubSeq(params, 1, Len(custom)) = custom
        /\ Given("name") # {} => Says(params, "NAME", LastOf("name"))
        /\ Given("multiple") # {} => Says(params, "ASSET_MULTIPLE", LastOf("multiple"))
        /\ Given("startblock") # {} =>
             (LastOf("startblock") = "1" <=> Says(params, "UPGRADE_START_BLOCK", "1"))
        /\ (\E i \in Given("open") : given[i][2] = "true") =>
             Says(params, "FOLLOW_ONS", "1") \/ Says(params, "ANYONE_CAN_WRITE", "1")
        /\ \A name \in {"key", "data"} : Given(name) # {} => LastOf(name) = ""
  BY DEF NewEntityIsComplete
<1> HIDE DEF params
<1>3. CASE Type = "asset"
  BY <1>1, <1>3, AssetIsComplete
<1>4. CASE Type = "stream"
  BY <1>1, <1>4, StreamIsComplete
<1>5. CASE Type = "upgrade"
  BY <1>1, <1>5, UpgradeIsComplete
<1> QED
  BY <1>1, <1>3, <1>4, <1>5 DEF NewEntity

(* The script of a new asset, stream or upgrade says everything the object  *)
(* said, for any texts, custom fields, callers and any number of fields in  *)
(* any order: of a field that came twice the last value, every custom field *)
(* in its place, and nothing is passed over (rawmetadata.cpp:497-690).      *)
THEOREM NewEntityAlwaysComplete == Spec => []NewEntityIsComplete
BY SaidInvariant, SaidIsComplete, PTL

=============================================================================
