----------------------------- MODULE ValueCodec -----------------------------
(***************************************************************************)
(* One value from the library to the clients and back.  convertValueID     *)
(* makes the row of the library's data, encodeValue the document of the    *)
(* row; setvalue over MQTT and the editors of the simple client write the  *)
(* row, and pvt_valueModelDataChanged makes the library's data of it.      *)
(*                                                                         *)
(* Numbers keep their widths, Decimals what is lost of a double, Lists the *)
(* difference between entry, value and label, BitSets their mask; Button,  *)
(* String and Raw are Tokens.  Which rows exist at all is the matter of    *)
(* OZWManager, whether the broker is there that of MqttPublisher.          *)
(***************************************************************************)
EXTENDS Integers, Sequences, SequencesExt, FiniteSets

CONSTANTS
    Sizes,      \* how many numbers each type has, 2^w with w bits
    Items,      \* the entries of the List: labels and values
    Masks,      \* bit masks the BitSet may have
    Decimals,   \* the doubles that a QVariant tells apart
    Float,      \* what toFloat makes of each
    Tokens,     \* data of Buttons, Strings and Raws
    PendingBound\* bound: writes on their way to the device

Numbers == {"Byte", "Short", "Int"}

Types == Numbers \cup {"Bool", "Decimal", "List", "BitSet", "Token"}

\* Types whose editor writes nothing: setModelData has no case for them.
Unwritten == {"Decimal", "Token"}

Entries == 1..Len(Items)

ASSUME CodecAssumption ==
    /\ Sizes \in [Numbers -> Nat \ {0}]
    /\ \A t \in Numbers : Sizes[t] % 2 = 0
    /\ Masks \subseteq SUBSET Nat
    /\ Items \in Seq([label : STRING, value : Nat])
    /\ \A i, j \in Entries : i # j => Items[i].label # Items[j].label /\ Items[i].value # Items[j].value
    /\ Float \in [Decimals -> Decimals]
    /\ \A d \in Decimals : Float[Float[d]] = Float[d]
    /\ PendingBound \in Nat \ {0}

VARIABLES
    type,       \* the type, part of the value's key
    mask,       \* the library's bit mask
    lib,        \* what the library holds
    pending,    \* writes on their way to the device
    reported,   \* a report is posted and not handled
    row,        \* the Value column
    doc,        \* Value in the publisher's document
    topic,      \* Value in the message retained in the value's topic
    editor,     \* the row the simple client's open editor began with, or {}
    meant,      \* ghost: what device and clients made of the value, in their order
    crossed     \* ghost: some of that met in a way the code does not sort out

vars == <<type, mask, lib, pending, reported, row, doc, topic, editor, meant, crossed>>

-----------------------------------------------------------------------------
(* Conversions.                                                            *)

Size == Sizes[type]

\* Fault: the number is passed on as wide as it is.
CastNot(v) == v

\* What value<quint8>, value<int16> and value<int32> make of a wider number.
Cast(v) == LET low == v % Size IN
           IF type = "Byte" \/ low < Size \div 2 THEN low ELSE low - Size

\* The data the library may hold.
LibData == CASE type = "Byte" -> 0..(Size - 1)
             [] type \in {"Short", "Int"} -> -(Size \div 2)..(Size \div 2 - 1)
             [] type = "List" -> Entries
             [] type = "BitSet" -> SUBSET mask
             [] type = "Bool" -> BOOLEAN
             [] type = "Decimal" -> {Float[d] : d \in Decimals}
             [] OTHER -> Tokens

\* The mask of the row is read from bit 1 on.
RowMask == mask \ {0}

Visible(d) == IF type = "BitSet" THEN d \cap RowMask ELSE d

Shown(d) == IF type = "List" THEN [item |-> Items[d].label, id |-> Items[d].value]
            ELSE Visible(d)

\* Fault: each bit is sent as the next.
DataOfShifted(r) == CASE type \in Numbers -> Cast(r)
                      [] type = "List" -> CHOOSE i \in Entries : Items[i].label = r.item
                      [] type = "BitSet" -> {b + 1 : b \in r}
                      [] type = "Decimal" -> Float[r]
                      [] OTHER -> r

\* What SetValue gets for a row: the List's label alone counts, not its id.
DataOf(r) == CASE type \in Numbers -> Cast(r)
               [] type = "List" -> CHOOSE i \in Entries : Items[i].label = r.item
               [] type = "Decimal" -> Float[r]
               [] OTHER -> r

\* A BitSet is sent whole, and only if a bit of the mask differs from what the
\* library holds now.
Sends(r) == IF type = "BitSet" /\ Visible(r) = Visible(lib) THEN <<>> ELSE <<DataOf(r)>>

\* The Value of the document as it is first made.
Encoded(r) == IF type = "BitSet" THEN [b \in RowMask |-> b \in r] ELSE r

\* Later the array of a BitSet is moved out of the document to be compared.
ReEncoded(r) == IF type = "BitSet" THEN [b \in {} |-> FALSE] ELSE Encoded(r)

\* Whether the row differs from the document; of a BitSet only bits that the
\* document has are compared.
Differs(r) == IF type = "BitSet" THEN \E b \in DOMAIN doc : doc[b] # (b \in r) ELSE doc # r

\* When setData finds that a row is not changed; a QVariant that holds a List
\* or a BitSet equals no other, an Int is compared as an unsigned number.
Same(r) == CASE type \in {"List", "BitSet"} -> FALSE
             [] type = "Int" -> r % Size = row % Size
             [] OTHER -> r = row

-----------------------------------------------------------------------------
(* The device, the library and the mirror.                                 *)

InitCodec ==
    /\ type \in Types /\ mask \in Masks
    /\ lib \in LibData
    /\ pending = <<>> /\ reported = FALSE
    /\ row = Shown(lib) /\ doc = Encoded(row) /\ topic = doc
    /\ editor = {}
    /\ meant = lib /\ crossed = FALSE

\* The ghosts after a step: what was meant is followed until something crosses.
Means(intent, crosses) ==
    /\ crossed' = crosses
    /\ meant' = IF crossed' THEN lib' ELSE intent

\* The device reports a change of its own, or just reports.
deviceReports(d) ==
    /\ lib' = d /\ reported' = TRUE
    /\ Means(IF d = lib THEN meant ELSE d, crossed \/ (d # lib /\ pending # <<>>))
    /\ UNCHANGED <<type, mask, pending, row, doc, topic, editor>>

deviceTakes ==
    /\ pending # <<>>
    /\ pending' = Tail(pending)
    /\ lib' = IF type = "BitSet" THEN Head(pending) \cap mask ELSE Head(pending)
    /\ reported' = TRUE
    /\ Means(meant, crossed)
    /\ UNCHANGED <<type, mask, row, doc, topic, editor>>

\* The write fails, or the device keeps what it has.
deviceRefuses ==
    /\ pending # <<>>
    /\ pending' = Tail(pending)
    /\ reported' \in {reported, TRUE}
    /\ UNCHANGED <<type, mask, lib, row, doc, topic, editor>>
    /\ Means(meant, TRUE)

\* A report is handled: the row is made anew, then the publisher's document.
convertValueID ==
    /\ reported
    /\ reported' = FALSE
    /\ row' = Shown(lib) /\ doc' = ReEncoded(row')
    /\ UNCHANGED <<type, mask, lib, pending, editor>>
    /\ Means(meant, crossed /\ pending # <<>>)

\* The document is published if its Value changed, or else its Units or flags.
valueChanged(attributes) ==
    /\ convertValueID
    /\ topic' = IF Differs(row') \/ attributes THEN doc' ELSE topic

valueRefreshed ==
    /\ convertValueID
    /\ topic' = doc'

-----------------------------------------------------------------------------
(* The clients.                                                            *)

\* The row shows the last write that is on its way, or the library's data.
Fresh == Visible(DataOf(row)) = Visible(IF pending = <<>> THEN lib ELSE Last(pending))

\* An edit that undoes one still on its way is not sent: the library has not
\* changed yet.
Undoes(r) == Sends(r) = <<>> /\ pending # <<>>

\* QTOZW_ValueIds::setData and pvt_valueModelDataChanged.
setData(r, intent, lossy) ==
    LET sent == IF Same(r) THEN <<>> ELSE Sends(r) IN
    /\ Len(pending \o sent) <= PendingBound
    /\ pending' = pending \o sent
    /\ row' = IF Same(r) THEN row ELSE r
    /\ UNCHANGED <<type, mask, lib, reported, doc, topic>>
    /\ Means(intent, crossed \/ lossy \/ ~Fresh \/ Undoes(r))

\* Numbers are taken if the unsigned type of their width holds them.
setValueNumber(v) ==
    /\ type \in Numbers /\ v \in 0..(Size - 1)
    /\ setData(v, Cast(v), Cast(v) # v)
    /\ UNCHANGED editor

\* The number is looked for among the values; the id becomes the place.
setValueList(v) ==
    /\ type = "List"
    /\ \E i \in Entries :
         /\ Items[i].value = v
         /\ setData([item |-> Items[i].label, id |-> i - 1], i, FALSE)
    /\ UNCHANGED editor

\* r with the bits of on set and those of off cleared.
Edited(r, on, off) == (r \ off) \cup on

\* Bits are named by label, which those of the mask have, or by position.
setValueBitSet(on, off) ==
    /\ type = "BitSet" /\ on \cap off = {}
    /\ setData(Edited(row, on, off), Edited(meant, on, off), ~(on \cup off \subseteq RowMask))
    /\ UNCHANGED editor

setValueBool(d) ==
    /\ type = "Bool" /\ d \in BOOLEAN
    /\ setData(d, d, FALSE)
    /\ UNCHANGED editor

\* The row holds the double until the next report, the library its float.
setValueDecimal(d) ==
    /\ type = "Decimal" /\ d \in Decimals
    /\ setData(d, Float[d], FALSE)
    /\ UNCHANGED editor

setValueToken(d) ==
    /\ type = "Token" /\ d \in Tokens
    /\ setData(d, d, FALSE)
    /\ UNCHANGED editor

setEditorData ==
    /\ editor = {}
    /\ editor' = {row}
    /\ UNCHANGED <<type, mask, lib, pending, reported, row, doc, topic, meant, crossed>>

\* A BitSetWidget gives back the row it began with and the boxes switched since.
setModelDataBitSet(r, on, off) ==
    /\ type = "BitSet" /\ on \cap off = {} /\ on \cup off \subseteq RowMask
    /\ setData(Edited(r, on, off), Edited(meant, on, off), r # row)

\* Other editors that write do so if what they show differs from the row by then.
setModelData(d) ==
    \/ /\ type = "List" /\ Items[d].label # row.item
       /\ setData([row EXCEPT !.item = Items[d].label], d, FALSE)
    \/ /\ type \in Numbers \cup {"Bool"} /\ d # row
       /\ setData(d, d, FALSE)

leavesRow(crosses) ==
    /\ UNCHANGED <<type, mask, lib, pending, reported, row, doc, topic>>
    /\ Means(meant, crosses)

\* setModelData has no case for the type: the model is not told, the edit lost.
losesEdit == type \in Unwritten /\ leavesRow(TRUE)

commits ==
    \E r \in editor :
      /\ editor' = {}
      /\ \/ \E on, off \in SUBSET RowMask : setModelDataBitSet(r, on, off)
         \/ \E d \in LibData : setModelData(d)
         \/ losesEdit

\* Escape, or an editor in which nothing was changed.
closeEditor ==
    /\ editor # {}
    /\ editor' = {}
    /\ leavesRow(crossed)

-----------------------------------------------------------------------------
NextCodec ==
    \/ \E d \in LibData : deviceReports(d)
    \/ deviceTakes \/ deviceRefuses
    \/ valueRefreshed \/ \E attributes \in BOOLEAN : valueChanged(attributes)
    \/ \E v \in 0..Sizes["Int"] : setValueNumber(v) \/ setValueList(v)
    \/ \E on, off \in SUBSET UNION Masks : setValueBitSet(on, off)
    \/ \E d \in BOOLEAN : setValueBool(d)
    \/ \E d \in Decimals : setValueDecimal(d)
    \/ \E d \in Tokens : setValueToken(d)
    \/ setEditorData \/ commits \/ closeEditor

SpecCodec == InitCodec /\ [][NextCodec]_vars

-----------------------------------------------------------------------------
(* Properties.                                                             *)

\* TypeOKCodec: what is sent and held are data of the type, in its width.
TypeOKCodec ==
    /\ type \in Types /\ mask \in Masks
    /\ lib \in LibData
    /\ Len(pending) <= PendingBound
    /\ \A d \in Range(pending) : type = "BitSet" \/ d \in LibData
    /\ reported \in BOOLEAN /\ crossed \in BOOLEAN
    /\ Cardinality(editor) <= 1

\* Nothing is on its way, and nothing met that the code does not sort out.
Settled == pending = <<>> /\ ~reported /\ ~crossed

\* EditsArrive: when all is settled, the device holds what the edits of all
\* clients and its own changes came to, in every bit the row shows and a Decimal
\* as a float, and the row shows what the library holds; so does the topic, a
\* BitSet's apart.  Not sorted out are: an edit in an editor that writes nothing
\* (of a Decimal, a Button, a String or a Raw), an edit of a row that is behind,
\* a refused write, a number or a bit that the type cannot hold, an editor left
\* open while the row changed, and a BitSet's edit that undoes one still on its
\* way.
EditsArrive ==
    Settled =>
      /\ Visible(lib) = Visible(meant)
      /\ row = Shown(lib)
      /\ type # "BitSet" => topic = Encoded(row)

\* TopicFollows: docs/MQTT.md says of setvalue that the value's topic will be
\* updated with the new value if the device accepted the change.
TopicFollows == Settled => topic = Encoded(row)

=============================================================================
