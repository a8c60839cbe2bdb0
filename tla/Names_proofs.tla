----------------------------- MODULE Names_proofs -----------------------------
(***************************************************************************)
(* What names promise, for every alphabet.                                 *)
(***************************************************************************)
EXTENDS Names, TLAPS

LEMMA ResourceNameType ==
  ASSUME NEW s \in PyString
  PROVE  ResourceName(s) \in ResourceNames
BY DEF ResourceName, ResourceNames, PyString, _name_should_be_quoted

LEMMA DenotesType ==
  ASSUME NEW n \in ResourceNames
  PROVE  Denotes(n) \in Text
BY NamesAssumption DEF Denotes, ResourceNames

(***************************************************************************)
(* ResourceName.__eq__ holds between exactly the names that mean the same  *)
(* object in a statement.                                                  *)
(***************************************************************************)
THEOREM EqIsSameObject ==
  ASSUME NEW m \in ResourceNames, NEW n \in ResourceNames
  PROVE  Eq(m, n) <=> Denotes(m) = Denotes(n)
<1>1. m.quoted \in BOOLEAN /\ n.quoted \in BOOLEAN
  BY DEF ResourceNames
<1>2. CASE m.quoted /\ n.quoted
  BY <1>2 DEF Eq, Denotes
<1>3. CASE ~ m.quoted /\ ~ n.quoted
  BY <1>3 DEF Eq, Denotes
<1>4. CASE m.quoted /\ ~ n.quoted
  BY <1>4 DEF Eq, Denotes
<1>5. CASE ~ m.quoted /\ n.quoted
  BY <1>5 DEF Eq, Denotes
<1> QED
  BY <1>1, <1>2, <1>3, <1>4, <1>5

LEMMA MetadataName ==
  ASSUME NEW t \in Text
  PROVE  resource_name_from_snowflake_metadata(t) = [name |-> t, quoted |-> t \notin Plain]
<1>1. CASE t \in Plain
  <2>1. t \in Identifiers
    BY <1>1, NamesAssumption
  <2>2. ResourceName(Bare(t)) = [name |-> t, quoted |-> FALSE]
    BY <2>1 DEF ResourceName, Bare, _name_should_be_quoted
  <2> QED
    BY <2>2, <1>1 DEF resource_name_from_snowflake_metadata
<1>2. CASE t \notin Plain
  <2>1. ResourceName(InQuotes(t)) = [name |-> t, quoted |-> TRUE]
    BY DEF ResourceName, InQuotes
  <2> QED
    BY <2>1, <1>2 DEF resource_name_from_snowflake_metadata
<1> QED
  BY <1>1, <1>2

LEMMA StrOfName ==
  ASSUME NEW n \in ResourceNames
  PROVE  Str(n) = [text |-> Denotes(n), quotes |-> n.quoted]
<1>1. CASE n.quoted
  BY <1>1 DEF Str, Denotes, InQuotes, ResourceNames
<1>2. CASE ~ n.quoted
  BY <1>2 DEF Str, Denotes, Bare, ResourceNames
<1> QED
  BY <1>1, <1>2

(***************************************************************************)
(* What the account spells is read back as the name of that very object:   *)
(* resource_name_from_snowflake_metadata loses nothing.                    *)
(***************************************************************************)
THEOREM MetadataDenotesItself ==
  ASSUME NEW t \in Text
  PROVE  Denotes(resource_name_from_snowflake_metadata(t)) = t
<1>1. resource_name_from_snowflake_metadata(t).name = t
  BY MetadataName
<1>2. t \in Plain => Upper[t] = t
  BY NamesAssumption
<1> QED
  <2>1. CASE t \in Plain
    BY <2>1, <1>1, <1>2 DEF Denotes
  <2>2. CASE t \notin Plain
    <3>1. resource_name_from_snowflake_metadata(t) = [name |-> t, quoted |-> TRUE]
      BY <2>2, MetadataName
    <3> QED
      BY <3>1 DEF Denotes
  <2> QED
    BY <2>1, <2>2

(***************************************************************************)
(* Equal keys name the same object, so a dictionary of URNs never mixes    *)
(* two up.  The converse does not hold: "FOO" and FOO are one object with  *)
(* two keys (resource_name.py:60).                                         *)
(***************************************************************************)
THEOREM SameKeySameObject ==
  ASSUME NEW m \in ResourceNames, NEW n \in ResourceNames, Str(m) = Str(n)
  PROVE  Eq(m, n)
<1>1. Str(m).text = Denotes(m) /\ Str(n).text = Denotes(n)
  BY StrOfName
<1>2. Denotes(m) = Denotes(n)
  BY <1>1
<1> QED
  BY <1>2, EqIsSameObject

(***************************************************************************)
(* Which declarations a listing finds again: an unquoted name that is      *)
(* plain in capitals, or a quoted one (by its quotes, or because it does   *)
(* not parse) that is not plain.                                           *)
(***************************************************************************)
THEOREM CanonicalNames ==
  ASSUME NEW s \in PyString
  PROVE  Canonical(s) <=>
           (ResourceName(s).quoted <=> Denotes(ResourceName(s)) \notin Plain)
<1>1. PICK n \in ResourceNames : n = ResourceName(s)
  BY ResourceNameType
<1>2. PICK t \in Text : t = Denotes(n)
  BY DenotesType
<1>3. Str(n) = [text |-> t, quotes |-> n.quoted] /\ n.quoted \in BOOLEAN
  BY <1>2, StrOfName DEF ResourceNames
<1>4. PICK l : l = resource_name_from_snowflake_metadata(t)
  OBVIOUS
<1>5. l = [name |-> t, quoted |-> t \notin Plain]
  BY <1>4, MetadataName
<1>6. l \in ResourceNames
  BY <1>5 DEF ResourceNames
<1>7. Denotes(l) = t
  BY <1>4, MetadataDenotesItself
<1>8. Str(l) = [text |-> t, quotes |-> t \notin Plain]
  BY <1>5, <1>6, <1>7, StrOfName
<1>9. Canonical(s) <=> Str(n) = Str(l)
  BY <1>1, <1>2, <1>4 DEF Canonical
<1>10. Str(n) = Str(l) <=> (n.quoted <=> t \notin Plain)
  BY <1>3, <1>8
<1> QED
  BY <1>1, <1>2, <1>9, <1>10
=============================================================================
