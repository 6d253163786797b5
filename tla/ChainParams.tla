---------------------------- MODULE ChainParams ----------------------------
(***************************************************************************)
(* The parameters of a chain in the file its node wrote, which its owner   *)
(* may have edited, and the two helpers that read it                       *)
(* (helpers/src/KeysHelperWithFile.cpp): one takes the file line by line,  *)
(* the other looks in the whole text for the names it needs.               *)
(*                                                                         *)
(* A line is a sequence of tokens: names, values, words of a comment, "=", *)
(* "#" and " ".                                                            *)
(***************************************************************************)
EXTENDS Integers, SequencesExt

CONSTANTS
  Token,        (* of lines                                                 *)
  Key,          (* the names a helper needs                                 *)
  ChainFile,    (* files as nodes write them                                *)
  Edit,         (* lines that are added                                     *)
  MaxEdits,     (* bound on the edits of a file                             *)
  HexBytes      (* the bytes of each value                                  *)

(* A name is one word; what stands for no parameter is none.               *)
ASSUME ChainParamsAssumption ==
  /\ Key # {} /\ Key \subseteq Token \ {"=", "#", " "}
  /\ {"\n", "no value", "broken"} \cap Token = {}
  /\ ChainFile \subseteq Seq(Seq(Token)) /\ Edit \subseteq Seq(Token)

VARIABLES
  file,     (* the lines of the file                                        *)
  edits,    (* how often it was edited                                      *)
  helper    (* the parameters by name, or NoHelper, or Broken               *)

fileVars == <<file, edits, helper>>

NoHelper == [key \in Key |-> <<"no helper">>]
Broken == [key \in Key |-> <<"broken">>]   (* it threw or went on with NULL *)
NoValue == <<"no value">>

-----------------------------------------------------------------------------
IsSpace(token) == token = " " \/ token = "\n"

Trim(tokens) ==
  LET solid == {i \in DOMAIN tokens : ~IsSpace(tokens[i])}
  IN  IF solid = {} THEN <<>> ELSE SubSeq(tokens, Min(solid), Max(solid))

(* The place of the first such token behind a place, 0 if there is none.    *)
Find(tokens, token, after) ==
  LET places == {i \in DOMAIN tokens : i > after /\ tokens[i] = token}
  IN  IF places = {} THEN 0 ELSE Min(places)

(* mapFromFileReadAll, the value of a line: from "=" to "#"; when these are *)
(* the other way round the computed length is negative and the value is     *)
(* what follows "="; and without "=" name and value are the whole line.     *)
Skipped(line) == line = <<>> \/ line[1] = "#" \/ IsSpace(line[1])

LineKey(line) ==
  LET equals == Find(line, "=", 0)
  IN  Trim(SubSeq(line, 1, IF equals = 0 THEN Len(line) ELSE equals - 1))

(* Variant: the length of the value counts the sign in front of the comment.*)
LineValue_WithSign(line) ==
  LET equals == Find(line, "=", 0)
      comment == Find(line, "#", 0)
  IN  Trim(SubSeq(line, equals + 1, IF 0 < equals /\ equals < comment THEN comment ELSE Len(line)))

LineValue(line) ==
  LET equals == Find(line, "=", 0)
      comment == Find(line, "#", 0)
  IN  Trim(SubSeq(line, equals + 1, IF 0 < equals /\ equals < comment THEN comment - 1 ELSE Len(line)))

(* A line without "#" makes substr throw.  Of two lines the later one       *)
(* counts, and a name that is not there is noticed when it is asked for.    *)
FileReadAll(lines) ==
  LET read == {i \in DOMAIN lines : ~Skipped(lines[i])}
      Of(key) == {i \in read : LineKey(lines[i]) = <<key>>}
  IN  IF \E i \in read : Find(lines[i], "#", 0) = 0 THEN Broken
      ELSE [key \in Key |-> IF Of(key) = {} THEN NoValue ELSE LineValue(lines[Max(Of(key))])]

(* mapFromFileReadMulti: from the first place the name has in the text to   *)
(* the next "=" and from there to the next "#", on whatever lines they are; *)
(* when one of the three is missing a string is made of NULL, or what lies  *)
(* behind the buffer, which has no terminator, is taken for the value.      *)
Text(lines) == FlattenSeq([i \in DOMAIN lines |-> lines[i] \o <<"\n">>])

FileParamValue(text, key) ==
  LET front == Find(text, key, 0)
      equals == Find(text, "=", front)
      back == Find(text, "#", equals)
  IN  IF 0 \in {front, equals, back} THEN NoValue ELSE Trim(SubSeq(text, equals + 1, back - 1))

Unterminated(map) ==
  [key \in Key |-> IF map[key] = NoValue THEN <<"what lies behind">> ELSE map[key]]

FileParams(lines) == [key \in Key |-> FileParamValue(Text(lines), key)]

FileReadMulti(lines) ==
  IF NoValue \in Range(FileParams(lines)) THEN Broken ELSE FileParams(lines)

ParseHex(value) ==
  IF Len(value) = 1 /\ value[1] \in DOMAIN HexBytes THEN HexBytes[value[1]] ELSE <<>>

-----------------------------------------------------------------------------
FileInit == file \in ChainFile /\ edits = 0 /\ helper = NoHelper

Added == \E i \in 1 .. Len(file) + 1, line \in Edit : file' = InsertAt(file, i, line)
Removed == \E i \in DOMAIN file : file' = RemoveAt(file, i)

EditFile ==
  /\ helper = NoHelper /\ edits < MaxEdits
  /\ edits' = edits + 1
  /\ Added \/ Removed
  /\ UNCHANGED helper

(* A helper has a copy of the parameters; the file no longer matters.       *)
Load(map) ==
  /\ helper = NoHelper
  /\ helper' = map
  /\ file' = <<>> /\ edits' = MaxEdits

KeysHelperWithFileAll == Load(FileReadAll(file))
KeysHelperWithFileMulti ==
  Load(FileReadMulti(file)) \/ Load(Unterminated(FileParams(file)))

(* A file that cannot be opened has no parameters.                          *)
NoFile == Load([key \in Key |-> NoValue])

FileNext == EditFile \/ NoFile \/ KeysHelperWithFileAll \/ KeysHelperWithFileMulti

-----------------------------------------------------------------------------
(* Properties.                                                              *)
Assigns(line, key) ==
  ~Skipped(line) /\ LineKey(line) = <<key>> /\ 0 < Find(line, "=", 0) /\ Find(line, "=", 0) < Find(line, "#", 0)

(* A name is mentioned nowhere before the one line that assigns it, which   *)
(* starts with it.                                                          *)
Clear(key) ==
  \E i \in DOMAIN file :
    /\ Assigns(file[i], key) /\ file[i][1] = key
    /\ \A j \in DOMAIN file : j # i => ~Assigns(file[j], key)
    /\ \A j \in 1 .. i - 1 : Find(file[j], key, 0) = 0

(* The helpers give the same parameters for one file as long as every name  *)
(* is clear and every assignment has a comment, whatever else is in it:     *)
(* empty and continued lines, comments with equations or names, other       *)
(* parameters, in any order (KeysHelperWithFile.cpp:65-103, 160-203).       *)
ReadersAgree ==
  helper = NoHelper /\ (\A key \in Key : Clear(key)) =>
    /\ FileReadMulti(file) # Broken
    /\ FileReadAll(file) # Broken => FileReadAll(file) = FileReadMulti(file)
    /\ FileReadAll(file) = Broken <=> \E i \in DOMAIN file : ~Skipped(file[i]) /\ Find(file[i], "#", 0) = 0
    /\ \A key \in Key : \E i \in DOMAIN file :
         Assigns(file[i], key) /\ FileReadMulti(file)[key] = LineValue(file[i])
=============================================================================
