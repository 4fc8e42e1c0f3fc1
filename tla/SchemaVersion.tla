--------------------------- MODULE SchemaVersion ---------------------------
(***************************************************************************)
(* The GraphQLSchema wrapper (graphql/mod.rs 21-107): raw schema text with *)
(* the IndexMetadataEntity fragment appended, and a version, the SHA-256   *)
(* of some text.  The wrapper is made three ways: GraphQLSchema::new,      *)
(* From<String>, and From<String> on the bytes of an existing wrapper      *)
(* (From<&GraphQLSchema> for Vec<u8>), as a stored schema is reloaded.     *)
(*                                                                         *)
(* Text is a sequence of tokens; the fragment is the token Fragment.  The *)
(* digest is idealised as collision-free: Digest(s) is a value that equals *)
(* Digest(t) only when s = t.                                              *)
(***************************************************************************)
EXTENDS Naturals, Sequences, FiniteSets

CONSTANTS
  Tokens,     \* pieces of user-written schema text
  Fragment,   \* IndexMetadata::schema_fragment()
  MaxLen,     \* longest user-written schema considered
  MaxMade     \* number of wrappers made in one behaviour

ASSUME Fragment \notin Tokens /\ MaxLen \in Nat /\ MaxMade \in Nat \ {0}

VARIABLE made   \* the wrappers made so far: [schema, version]

Contents == UNION {[1..n -> Tokens] : n \in 0..MaxLen}

\* schema_version: format!("{:x}", Sha256::digest(schema)).
Digest(s) == [sha256 |-> s]

\* inject_native_entities_into_schema: format!("{}{}", schema, fragment).
Inject(s) == Append(s, Fragment)

\* GraphQLSchema::new hashes the injected text.
NewSchema(c) == [schema |-> Inject(c), version |-> Digest(Inject(c))]

\* From<String> hashes the text it was given, before injection.
FromString(c) == [schema |-> Inject(c), version |-> Digest(c)]

\* From<&GraphQLSchema> for Vec<u8>: the bytes of the stored text.
Bytes(w) == w.schema

Init == made = {}

MakeNew(c) ==
  /\ Cardinality(made) < MaxMade
  /\ made' = made \cup {NewSchema(c)}

MakeFrom(c) ==
  /\ Cardinality(made) < MaxMade
  /\ made' = made \cup {FromString(c)}

\* A stored wrapper read back from its bytes through From<String>.
Reload(w) ==
  /\ Cardinality(made) < MaxMade
  /\ made' = made \cup {FromString(Bytes(w))}

Next ==
  \/ \E c \in Contents : MakeNew(c) \/ MakeFrom(c)
  \/ \E w \in made : Reload(w)

Spec == Init /\ [][Next]_made

-----------------------------------------------------------------------------

\* Two wrappers with the same version hold the same schema text, so a
\* redeployment is detected by comparing versions: a reloaded schema never
\* shares a version with a different text.
VersionIdentifiesSchema ==
  \A w1, w2 \in made : w1.version = w2.version => w1.schema = w2.schema

=============================================================================
