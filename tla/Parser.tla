------------------------------- MODULE Parser -------------------------------
(***************************************************************************)
(* The parsers of source/parser: what a path's contents become.            *)
(*                                                                         *)
(* Contents are abstracted to what the libraries make of them: yaml reads  *)
(* "yaml" and "json" contents, a sequence of documents and a single one;   *)
(* json reads "json"; and only "props" contents have lines with one "=".   *)
(* Anything else is "broken".                                              *)
(***************************************************************************)
EXTENDS Flatter

Fails     == [ok |-> FALSE, values |-> NoKeys]
Is(values) == [ok |-> TRUE, values |-> values]

(* Each document is flattened into the same values, over those before.     *)
ParseYAML(c, prefix) ==
    IF c.format \in {"yaml", "json"}
    THEN Is(Layered(Reverse([i \in DOMAIN c.docs |-> Flatten(c.docs[i], prefix)])))
    ELSE Fails

ParseJSON(c, prefix) == IF c.format = "json" THEN Is(Flatten(c.docs[1], prefix)) ELSE Fails

(* Lines that are no assignments are passed over, so this never fails.     *)
ParseProps(c, prefix) ==
    IF c.format = "props" THEN Is(Flatten(c.docs[1], prefix)) ELSE Is(NoKeys)

Parse(c, prefix) ==
    IF ParseYAML(c, prefix).ok THEN ParseYAML(c, prefix)
    ELSE IF ParseJSON(c, prefix).ok THEN ParseJSON(c, prefix)
    ELSE ParseProps(c, prefix)

IsContents(c) ==
    /\ c.docs \in Seq(Range(c.docs)) /\ \A i \in DOMAIN c.docs : IsDocument(c.docs[i])
    /\ \/ c.format = "yaml"
       \/ c.format \in {"json", "props"} /\ Len(c.docs) = 1
       \/ c.format = "broken" /\ c.docs = <<>>

(* For reference: the document that contents stand for.                    *)
Meaning(c) == Laid(Reverse(c.docs))
=============================================================================
