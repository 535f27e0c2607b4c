------------------------------- MODULE Documents -------------------------------
(***************************************************************************)
(* Elements of every shape, written child by child and read back: the lists  *)
(* of ids and the object paths that the fromXML functions take from what     *)
(* xml2js and xmlToObject make of the element.                               *)
(***************************************************************************)
EXTENDS XmlObjects

CONSTANTS
    Names,        \* the names of the children
    Values,       \* their texts; Empty for none
    MaxChildren   \* bound on the children of an element

(* Ids and paths: none of the names that the folding uses for its own ends.   *)
ASSUME NamesAssumption ==
  Names \intersect {"text", "attributes", "$name", "$type", "type", "name",
                    "techDescription"} = {}
ASSUME BoundAssumption == MaxChildren \in Nat

VARIABLES
    place,     \* where the element is among its siblings
    children   \* the children written so far

documentsVars == <<place, children>>

(* The element is all its parent has, the only one of its name, one of two    *)
(* that have the parent to themselves, or one of two next to another element. *)
Places == {"alone", "among", "twins", "mixed"}

Described == "techDescription" :> Text("d")
Children  == {Field(n, a, v) : n \in Names, a \in {NoAttributes, Described}, v \in Values}

DocumentsInit == place \in Places /\ children = <<>>

WriteChild ==
  \E child \in Children :
    /\ Len(children) < MaxChildren
    /\ children' = Append(children, child)
    /\ UNCHANGED place

DocumentsSpec == DocumentsInit /\ [][WriteChild]_documentsVars

-----------------------------------------------------------------------------
Source  == Element("element", NoAttributes, children)
Sibling == Field("sibling", NoAttributes, "s")
Siblings ==
  [alone |-> <<Source>>,
   among |-> <<Sibling, Source>>,
   twins |-> <<Source, Source>>,
   mixed |-> <<Source, Sibling, Source>>]
Parent   == Element("parent", NoAttributes, Siblings[place])

Received == AsArray(Property(Xml2js(Parent), "element"))[1]
Built    == AsArray(Property(XmlToObject(Parent), "element"))[1]

(* An element with one child that has a text becomes a text itself, and is no *)
(* more than that where it is alone.  In twins, an element with nothing but   *)
(* children of one name, or one child without a text, is replaced by what is  *)
(* below it.                                                                 *)
OneText == Len(children) = 1 /\ children[1].text # Empty

KeepsItsLevel ==
  /\ place = "alone" => ~OneText
  /\ place = "twins" =>
       Cardinality({children[i].name : i \in DOMAIN children}) > 1 \/ OneText

-----------------------------------------------------------------------------
Read(value, n) ==
  LET values == AsArray(Property(value, n))
  IN  [i \in DOMAIN values |-> String128(values[i])]

Sent(n) == [i \in DOMAIN Named(children, n) |-> Named(children, n)[i].text]

(* An element that keeps its level keeps its lists of ids: each is read       *)
(* complete and in order, whatever else the element has below it.  But what   *)
(* is read of a text that looks like a number or a boolean is how that is     *)
(* written: "007" comes back as "7", also between texts that stay.  And a     *)
(* list with an empty text, or with a 0 or a false among several, is not      *)
(* read back.                                                                *)
IdsAreRead ==
  \A n \in {children[i].name : i \in DOMAIN children} :
    KeepsItsLevel /\ (\A i \in DOMAIN Sent(n) : Native(Sent(n)[i]) \notin Falsy \union {Empty})
      => Read(Received, n) = Natives(Sent(n))

(* The paths of a type that have a text and a description, with these targets.*)
SentPaths(tag, targets) ==
  LET has == {i \in DOMAIN children : /\ children[i].name = tag
                                       /\ Native(children[i].text) \notin Falsy \union {Empty}
                                       /\ children[i].attributes = Described}
      path(i) == [type |-> tag, target |-> targets[i], description |-> "d"]
  IN  Selected([i \in DOMAIN children |-> path(i)], has)

ChildTexts == [i \in DOMAIN children |-> children[i].text]

(* The paths of a type that have a description, among those that are read.    *)
ReadPaths(value, tag) ==
  LET paths == Paths(value)
  IN  Selected(paths, {i \in DOMAIN paths : paths[i].type = tag /\ paths[i].description # Empty})

(* No two paths are of one type.                                             *)
Distinct ==
  /\ Cardinality({children[i].name : i \in DOMAIN children}) = Len(children)
  /\ \A i \in DOMAIN children : Native(children[i].text) \notin Falsy \union {Empty}

(* Every path with a description and a target is read, with its type, in all *)
(* the shapes that one, two and three paths of any types give the element.   *)
(* A target is converted like an id.  The same of what xmlToObject makes of  *)
(* it (Utils.ts:188), where nothing is converted, unless two paths are of one *)
(* type: a name is then looked for that only xml2js leaves.                  *)
PathsAreRead ==
  \A tag \in {PathTags[i] : i \in DOMAIN PathTags} :
    /\ KeepsItsLevel /\ ~ PathsThrow(Received)
         => ReadPaths(Received, tag) = SentPaths(tag, Natives(ChildTexts))
    /\ Distinct => ReadPaths(Built, tag) = SentPaths(tag, ChildTexts)

(* Dialogue.tla takes a list of ids from an element that has nothing else    *)
(* below it.  It tells the same of it, what is garbled and taken for absent  *)
(* included, as the whole way through xml2js and MosString128.  And it takes *)
(* an element that is alone for garbled where it has nothing but an id: that *)
(* is where nothing is left of the element but a text.                       *)
Reader == INSTANCE Dialogue WITH Requests <- {}, Lists <- {}, Supported <- {}, Bare <- {},
                                 registered <- {}, exchange <- Undefined

DialogueReadsAlike ==
  /\ place = "alone" => (Received.kind = "text" <=> OneText)
  /\ \A n \in Names :
       /\ place \in {"among", "mixed"} /\ children # <<>>
       /\ \A i \in DOMAIN children : children[i].name = n /\ children[i].text # Empty
                                        /\ children[i].attributes = NoAttributes
       => /\ Reader!ReadIds(Sent(n)) = Read(Received, n)
          /\ Reader!SourcePresent("storyID", Sent(n)) <=> Truthy(Property(Received, n))
==============================================================================
