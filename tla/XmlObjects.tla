------------------------------- MODULE XmlObjects -------------------------------
(***************************************************************************)
(* How a received document becomes the object that the fromXML functions     *)
(* read: xml2js of Utils.ts folds the parsed elements from the inside out,   *)
(* in another way for one child, for children of one name, of different      *)
(* names, and for a mix of both.  xmlToObject is its short cut for elements  *)
(* that were built and not parsed.                                           *)
(*                                                                          *)
(* A JavaScript value is a record with its kind.  A number or a boolean that  *)
(* parsing makes of a text is a text too: the one it is written as.          *)
(* CDATA, comments, and text next to elements are left out.                  *)
(***************************************************************************)
EXTENDS NativeType, Sequences, Naturals, FiniteSets

(* A property, and the properties of f with those of g that f does not have. *)
property :> value == [p \in {property} |-> value]
f @@ g == [p \in DOMAIN f \union DOMAIN g |-> IF p \in DOMAIN f THEN f[p] ELSE g[p]]

(* The positions in S, lowest first, and the elements of s that are there:   *)
(* SelectSeq by position, so that two lists can be selected from alike.      *)
InOrder(S) ==
  [k \in 1 .. Cardinality(S) |-> CHOOSE i \in S : Cardinality({j \in S : j <= i}) = k]
Selected(s, S) == [k \in 1 .. Cardinality(S) |-> s[InOrder(S)[k]]]

Named(elements, n) == Selected(elements, {i \in DOMAIN elements : elements[i].name = n})

Text(value)     == [kind |-> "text", value |-> value]
Object(props)   == [kind |-> "object", props |-> props]
Array(items)    == [kind |-> "array", items |-> items]
Undefined       == [kind |-> "undefined"]

Garbled         == "garbled"  \* an object that was turned into a text

HasProperty(value, p) == value.kind = "object" /\ p \in DOMAIN value.props
Property(value, p)    == IF HasProperty(value, p) THEN value.props[p] ELSE Undefined
Truthy(value)         == value \notin {Text(t) : t \in Falsy \union {Empty}} \union {Undefined}

(* An element: its name, its attributes and its children.  A field has a     *)
(* text, or nothing, and no children.                                        *)
Element(name, attributes, children) ==
  [name |-> name, attributes |-> attributes, children |-> children, text |-> Empty]
Field(name, attributes, text) ==
  [name |-> name, attributes |-> attributes, children |-> <<>>, text |-> text]
NoAttributes == <<>>

-----------------------------------------------------------------------------
(* xml2js: a node is what concatChildrenAndTraverseObject has made of an      *)
(* element; name and type are its properties $name and $type.                *)
Node(name, type, props) == [name |-> name, type |-> type, props |-> props]

AsItIs(node)   == Object(node.props @@ ("$name" :> Text(node.name))
                                    @@ ("$type" :> Text(node.type)))
Stripped(node) == Object(node.props)
Keys(node)     == Cardinality(DOMAIN node.props) + 2

AttributesOf(node) ==
  IF "attributes" \in DOMAIN node.props THEN node.props["attributes"].props
  ELSE NoAttributes
WithoutAttributes(props) == [p \in DOMAIN props \ {"attributes"} |-> props[p]]

(* The attributes become properties of the node.                             *)
Merged(node) == Node(node.name, node.type,
                     AttributesOf(node) @@ WithoutAttributes(node.props))

(* The children that keep their order.                                       *)
OrderedTags ==
  {"storyBody", "mosAbstract", "description", "p", "em", "span", "h1", "h2", "i", "b", "u"}

(* A text makes its element, and every only child around it, a text too.     *)
FoldText(own, text) == ("text" :> Text(Native(text))) @@ own

(* An only child.  The attributes of one that is a text go to its parent;    *)
(* those of any other are not merged.                                        *)
FoldOne(own, child) ==
  IF child.type = "text"
  THEN AttributesOf(child) @@ (child.name :> child.props["text"])
         @@ ("text" :> child.props["text"]) @@ own
  ELSE (child.name :> Stripped(child)) @@ own

(* Several children of one name: one that is a text keeps its $name, one     *)
(* with a single property is replaced by it.                                 *)
SameValueMutant(child) == Stripped(Merged(child))
SameValue(child) ==
  IF child.type = "text" THEN AsItIs(child)
  ELSE IF Cardinality(DOMAIN child.props) > 1 THEN Stripped(Merged(child))
  ELSE IF child.props = NoAttributes THEN Undefined
  ELSE child.props[CHOOSE p \in DOMAIN child.props : TRUE]

FoldSame(own, children) ==
  (children[1].name :> Array([i \in DOMAIN children |-> SameValue(children[i])])) @@ own

(* Children of different names.  A falsy text is also left in the parent, the *)
(* last one of several.                                                      *)
UniqueValue(child) ==
  IF child.type = "text" /\ Keys(child) <= 3 THEN child.props["text"]
  ELSE Stripped(Merged(child))

FoldUnique(own, children) ==
  LET named(n) == CHOOSE i \in DOMAIN children : children[i].name = n
      names    == {children[i].name : i \in DOMAIN children}
      falsy    == {i \in DOMAIN children : children[i].type = "text" /\ Keys(children[i]) <= 3
                                             /\ ~ Truthy(children[i].props["text"])}
      last     == CHOOSE i \in falsy : \A j \in falsy : j <= i
  IN  [n \in names |-> UniqueValue(children[named(n)])]
        @@ (IF falsy = {} THEN NoAttributes ELSE "text" :> children[last].props["text"]) @@ own

(* Some names once, some several times.                                      *)
MixedValue(child) ==
  IF child.type = "text" /\ Keys(child) <= 3 THEN child.props["text"]
  ELSE IF "attributes" \in DOMAIN child.props THEN AsItIs(Merged(child))
  ELSE Stripped(child)

FoldMixedMutant(own, children) ==
  LET names    == {children[i].name : i \in DOMAIN children}
      last(n)  == CHOOSE i \in DOMAIN children :
                    /\ children[i].name = n
                    /\ \A j \in DOMAIN children : children[j].name = n => j <= i
  IN  [n \in names |-> MixedValue(children[last(n)])] @@ own
FoldMixed(own, children) ==
  LET names    == {children[i].name : i \in DOMAIN children}
      named(n) == Named(children, n)
      values(n) == [i \in DOMAIN named(n) |-> MixedValue(named(n)[i])]
  IN  [n \in names |-> IF Len(values(n)) > 1 THEN Array(values(n)) ELSE values(n)[1]] @@ own

Fold(element, own, children) ==
  LET names == {children[i].name : i \in DOMAIN children}
  IN  IF Len(children) = 1 THEN FoldOne(own, children[1])
      ELSE IF element.name \in OrderedTags
      THEN ("elements" :> Array([i \in DOMAIN children |-> AsItIs(children[i])])) @@ own
      ELSE IF Cardinality(names) = 1 /\ names \cap {"type", "name"} = {}
      THEN FoldSame(own, children)
      ELSE IF Cardinality(names) = Len(children) THEN FoldUnique(own, children)
      ELSE FoldMixed(own, children)

Attributes(element) ==
  IF element.attributes = NoAttributes THEN NoAttributes
  ELSE "attributes" :> Object(element.attributes)

(* One call of concatChildrenAndTraverseObject: children are the nodes that  *)
(* its calls for the children of the element have made.                      *)
Compact(element, children) ==
  LET own    == Attributes(element)
      isText == \/ element.text # Empty
                \/ Len(children) = 1 /\ children[1].type = "text"
  IN  Node(element.name, IF isText THEN "text" ELSE "element",
           IF element.text # Empty THEN FoldText(own, element.text)
           ELSE IF children = <<>> THEN own
           ELSE Fold(element, own, children))

(* A document is a parent with elements that have fields: the recursion of   *)
(* the code is written out for these three levels.                           *)
FieldNode(field)     == Compact(field, <<>>)
ElementNode(element) ==
  Compact(element, [i \in DOMAIN element.children |-> FieldNode(element.children[i])])
ParentNode(parent)   ==
  Compact(parent, [i \in DOMAIN parent.children |-> ElementNode(parent.children[i])])

(* The document is the only child of the root.                               *)
Xml2js(document) == Stripped(ParentNode(document))

-----------------------------------------------------------------------------
(* xmlToObject.  Texts stay as they are here, those that look like numbers   *)
(* too.                                                                      *)
(* One call of it, given the objects of the children.                        *)
ObjectOf(element, objects) ==
  LET own   == Attributes(element)
      names == {element.children[i].name : i \in DOMAIN element.children}
      values(n) == Selected(objects, {i \in DOMAIN objects : element.children[i].name = n})
  IN  IF element.text # Empty
      THEN IF own = NoAttributes THEN Text(element.text)
           ELSE Object(("text" :> Text(element.text)) @@ own)
      ELSE Object([n \in names |-> IF Len(values(n)) > 1 THEN Array(values(n))
                                   ELSE values(n)[1]] @@ own)

FieldObject(field)     == ObjectOf(field, <<>>)
ElementObject(element) ==
  ObjectOf(element, [i \in DOMAIN element.children |-> FieldObject(element.children[i])])
XmlToObject(parent)    ==
  ObjectOf(parent, [i \in DOMAIN parent.children |-> ElementObject(parent.children[i])])

-----------------------------------------------------------------------------
(* What the fromXML functions make of it.                                    *)

(* new MosString128(value).toString()                                        *)
String128Mutant(value) ==
  IF value.kind = "text" THEN value.value
  ELSE IF value.kind = "undefined" THEN "undefined"
  ELSE IF HasProperty(value, "text") THEN Property(value, "text").value
  ELSE IF value = Object(NoAttributes) THEN Empty ELSE Garbled
String128(value) ==
  IF value.kind = "text" THEN value.value
  ELSE IF value.kind = "undefined" THEN "undefined"
  ELSE IF Truthy(Property(value, "text")) THEN Property(value, "text").value
  ELSE IF value = Object(NoAttributes) THEN Empty ELSE Garbled

(* if (!Array.isArray(xml)) xml = [xml]                                      *)
AsArray(value) == IF value.kind = "array" THEN value.items ELSE <<value>>

(* XMLObjectPaths.fromXML                                                    *)
PathTags == <<"objPath", "objProxyPath", "objMetadataPath">>

NoType == "none"
PathType(value, name) ==
  LET fits(tag) == HasProperty(value, tag) \/ name = tag
      types     == {i \in DOMAIN PathTags : fits(PathTags[i])}
  IN  IF types = {} THEN NoType
      ELSE PathTags[CHOOSE i \in types : \A j \in types : i <= j]

Nameless == "nameless"
NameOf(value) == IF HasProperty(value, "$name") THEN value.props["$name"].value ELSE Nameless

Description(value) ==
  IF Truthy(Property(value, "techDescription")) THEN Property(value, "techDescription")
  ELSE Property(Property(value, "attributes"), "techDescription")

(* The path a value stands for, in a list of at most one.                    *)
ObjectPath(value, key) ==
  LET own    == PathType(value, NameOf(value))
      type   == IF own = NoType THEN PathType(Undefined, key) ELSE own
      target == Property(value, "text")
  IN  IF type # NoType /\ Truthy(target)
      THEN <<[type |-> type, target |-> target.value,
              description |-> IF Description(value) = Undefined THEN Empty
                              ELSE Description(value).value]>>
      ELSE <<>>

(* Reading a property of undefined throws.                                   *)
PathsThrow(value) ==
  \E tag \in DOMAIN PathTags : \E i \in DOMAIN AsArray(Property(value, PathTags[tag])) :
    /\ Property(value, PathTags[tag]).kind = "array"
    /\ AsArray(Property(value, PathTags[tag]))[i] = Undefined

(* Keys are visited in the order they were added; only the order within one  *)
(* key is kept here.                                                         *)
PathsOfKey(value, key) ==
  LET here  == Property(value, key)
      found == [i \in DOMAIN here.items |-> ObjectPath(here.items[i], "index")]
      kept  == Selected(found, {i \in DOMAIN found : found[i] # <<>>})
  IN  IF here.kind # "array" THEN ObjectPath(here, key)
      ELSE [k \in DOMAIN kept |-> kept[k][1]]

Paths(value) ==
  IF HasProperty(value, "techDescription") THEN ObjectPath(value, Nameless)
  ELSE PathsOfKey(value, PathTags[1]) \o PathsOfKey(value, PathTags[2])
         \o PathsOfKey(value, PathTags[3])
==============================================================================
