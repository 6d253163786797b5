------------------------------ MODULE McScript ------------------------------
(***************************************************************************)
(* The element container mc_Script of script/src/hdacscript.cpp: one data  *)
(* buffer for all elements, an index with the offset and the length of     *)
(* each, both grown by whole chunks, and a current element that writing    *)
(* and reading share.  An array is a function on 0 .. alloc - 1; mc_New    *)
(* clears what it allocates.  A failed allocation throws out of Resize     *)
(* before anything is assigned: a stuttering step.                         *)
(*                                                                         *)
(* The clients are the metadata builder (keys/src/rawmetadata.cpp), the    *)
(* transaction builder (keys/src/hs_keys.cpp) and the classifiers          *)
(* (keys/src/transactions.cpp, script/src/utilparse.cpp).  They add        *)
(* elements and data only while the current element is the last one.       *)
(***************************************************************************)
EXTENDS Integers, Sequences

CONSTANTS
  Byte,          (* the bytes clients write                                 *)
  Piece,         (* the byte strings they write in one SetData call         *)
  Zero,          (* the byte 0                                              *)
  BufferChunk,   (* MC_DCT_SCRIPT_ALLOC_BUFFER_CHUNK                        *)
  IndexChunk,    (* MC_DCT_SCRIPT_ALLOC_INDEX_CHUNK                         *)
  MaxSize,       (* bound on m_Size                                         *)
  MaxElements    (* bound on m_NumElements                                  *)

ASSUME McScriptAssumption ==
  /\ Piece \subseteq Seq(Byte)
  /\ Zero \in Byte
  /\ BufferChunk \in Nat \ {0} /\ IndexChunk \in Nat \ {0}
  /\ MaxSize \in Nat /\ MaxElements \in Nat

VARIABLES
  m_Size,            (* bytes in use                                        *)
  m_NumElements,
  m_CurrentElement,  (* -1: none                                            *)
  m_AllocSize,
  m_lpData,          (* the buffer                                          *)
  m_AllocElements,
  m_lpCoord,         (* the index: <<offset, length>> of each element       *)
  got                (* what the last GetData returned                      *)

buffer == <<m_AllocSize, m_lpData>>
index  == <<m_AllocElements, m_lpCoord>>
containerVars == <<m_Size, m_NumElements, m_CurrentElement, buffer, index, got>>

(* GetData returns NULL, or the bytes of an element.                        *)
Nothing == <<>>
Something(bytes) == <<bytes>>

-----------------------------------------------------------------------------
(* The smallest alloc + k * chunk that is at least need.                    *)
Grown(alloc, need, chunk) ==
  IF need > alloc
  THEN alloc + chunk * ((need - alloc + chunk - 1) \div chunk)
  ELSE alloc

(* Variant: the contents of the old array are not copied.                   *)
Copied_Fresh(array, used, size, fresh) == [i \in 0 .. size - 1 |-> fresh]

(* A cleared array of the new size with the used part of the old one.       *)
Copied(array, used, size, fresh) ==
  [i \in 0 .. size - 1 |-> IF i < used THEN array[i] ELSE fresh]

(* Resize: the arrays after room was made for more bytes and elements; they *)
(* stay what they are when there is room.                                   *)
Buffer(bytes) ==
  LET size == Grown(m_AllocSize, m_Size + bytes, BufferChunk)
  IN  IF size > m_AllocSize THEN Copied(m_lpData, m_Size, size, Zero) ELSE m_lpData

Index(elements) ==
  LET size == Grown(m_AllocElements, m_NumElements + elements, IndexChunk)
  IN  IF size > m_AllocElements
      THEN Copied(m_lpCoord, m_NumElements, size, <<0, 0>>)
      ELSE m_lpCoord

Resize(bytes, elements) ==
  /\ m_AllocSize' = Grown(m_AllocSize, m_Size + bytes, BufferChunk)
  /\ m_AllocElements' = Grown(m_AllocElements, m_NumElements + elements, IndexChunk)

(* The bytes of the array from an offset on, and the array with bytes       *)
(* copied to an offset.                                                     *)
Bytes(array, off, len) == [i \in 1 .. len |-> array[off + i - 1]]

Written(array, off, src) ==
  [i \in DOMAIN array |->
     IF i \in off .. off + Len(src) - 1 THEN src[i - off + 1] ELSE array[i]]

Offset(e) == m_lpCoord[e][1]
Length(e) == m_lpCoord[e][2]

-----------------------------------------------------------------------------
ContainerInit ==
  /\ m_Size = 0
  /\ m_NumElements = 0
  /\ m_CurrentElement = -1
  /\ m_AllocSize = 0
  /\ m_lpData = [i \in {} |-> Zero]
  /\ m_AllocElements = 0
  /\ m_lpCoord = [i \in {} |-> <<0, 0>>]
  /\ got = Nothing

(* Destroy frees the arrays; Zero is its last call.                         *)
Destroy ==
  /\ m_Size' = 0
  /\ m_NumElements' = 0
  /\ m_CurrentElement' = -1
  /\ m_AllocSize' = 0
  /\ m_lpData' = [i \in {} |-> Zero]
  /\ m_AllocElements' = 0
  /\ m_lpCoord' = [i \in {} |-> <<0, 0>>]
  /\ UNCHANGED got

(* Clear keeps the arrays and what they hold.                               *)
Clear ==
  /\ m_Size' = 0
  /\ m_NumElements' = 0
  /\ m_CurrentElement' = -1
  /\ UNCHANGED <<buffer, index, got>>

(* What the clients respect when they write.                                *)
AtEnd == m_CurrentElement = m_NumElements - 1

(* The new element starts at m_Size; its place in the index is the one      *)
(* after the current element.                                               *)
AddElement ==
  /\ AtEnd
  /\ m_NumElements < MaxElements
  /\ Resize(0, 1)
  /\ m_NumElements' = m_NumElements + 1
  /\ m_CurrentElement' = m_CurrentElement + 1
  /\ m_lpData' = Buffer(0)
  /\ m_lpCoord' = [Index(1) EXCEPT ![m_CurrentElement + 1] = <<m_Size, 0>>]
  /\ UNCHANGED <<m_Size, got>>

(* The bytes go to the end of the current element.                          *)
SetData(src) ==
  /\ AtEnd
  /\ m_NumElements > 0
  /\ m_Size + Len(src) <= MaxSize
  /\ Resize(Len(src), 0)
  /\ m_lpData' =
       Written(Buffer(Len(src)), Offset(m_CurrentElement) + Length(m_CurrentElement), src)
  /\ m_lpCoord' = [Index(0) EXCEPT ![m_CurrentElement] = <<@[1], @[2] + Len(src)>>]
  /\ m_Size' = m_Size + Len(src)
  /\ UNCHANGED <<m_NumElements, m_CurrentElement, got>>

(* Element e exists.  (A negative one is not asked for.)                    *)
SetElement(e) ==
  /\ e < m_NumElements
  /\ m_CurrentElement' = e
  /\ UNCHANGED <<m_Size, m_NumElements, buffer, index, got>>

(* Reading an element makes it the current one.                             *)
GetData(e) ==
  \/ /\ e < m_NumElements
     /\ m_CurrentElement' = e
     /\ got' = Something(Bytes(m_lpData, Offset(e), Length(e)))
     /\ UNCHANGED <<m_Size, m_NumElements, buffer, index>>
  \/ /\ e >= m_NumElements
     /\ got' = Nothing
     /\ UNCHANGED <<m_Size, m_NumElements, m_CurrentElement, buffer, index>>

ContainerNext ==
  \/ Clear
  \/ Destroy
  \/ AddElement
  \/ \E src \in Piece : SetData(src)
  \/ \E e \in 0 .. MaxElements : SetElement(e) \/ GetData(e)

ContainerSpec == ContainerInit /\ [][ContainerNext]_containerVars

-----------------------------------------------------------------------------
(* Properties.                                                              *)

Last == m_NumElements - 1

ContainerTypeOK ==
  /\ m_Size \in Nat /\ m_NumElements \in Nat
  /\ m_CurrentElement \in Int
  /\ m_AllocSize \in Nat /\ m_AllocElements \in Nat
  /\ m_lpData \in [0 .. m_AllocSize - 1 -> Byte]
  /\ m_lpCoord \in [0 .. m_AllocElements - 1 -> Nat \X Nat]
  /\ got \in Seq(Seq(Byte))

(* Nothing is written or read outside an array: what is in use fits into    *)
(* what is allocated, and the current element is one of the list's          *)
(* (hdacscript.cpp:68-125, 154, 205).                                       *)
InBounds ==
  /\ m_Size <= m_AllocSize
  /\ m_NumElements <= m_AllocElements
  /\ m_CurrentElement \in -1 .. Last

(* The elements lie one after the other in the buffer, from its start to    *)
(* m_Size: writing to one cannot touch another.                             *)
Contiguous ==
  /\ m_NumElements = 0 => m_Size = 0
  /\ m_NumElements > 0 => Offset(0) = 0 /\ Offset(Last) + Length(Last) = m_Size
  /\ \A e \in 0 .. Last - 1 : Offset(e) + Length(e) = Offset(e + 1)

(* The container is a list of byte strings: whatever grows, is cleared and  *)
(* used again in between, GetData returns what was appended.                *)
elements ==
  [e \in 1 .. m_NumElements |-> Bytes(m_lpData, Offset(e - 1), Length(e - 1))]

Abstract == INSTANCE Elements WITH cursor <- m_CurrentElement

ImplementsElements == Abstract!Spec

=============================================================================
