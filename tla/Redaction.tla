------------------------------ MODULE Redaction ------------------------------
(***************************************************************************)
(* The client's redactor (client/src/redaction.rs): rules replace what     *)
(* looks sensitive by placeholders, in a fixed order, and rehydrate puts   *)
(* the originals back.                                                     *)
(*                                                                         *)
(* A text is a sequence of pieces as large as the rules allow: c is what a *)
(* piece looks like, of is empty for what a person types.  "digits" is a   *)
(* run of nine or more decimal digits, "hexes" one half of the hex digits  *)
(* of an address with letters among them.  A placeholder is two pieces,    *)
(* its tag and its hash; both name the original, as the salted hash does.  *)
(***************************************************************************)
EXTENDS Naturals, Sequences, SequencesExt

CONSTANTS
    Mode,           \* "none", "basic" or "strict"
    DigitHashed     \* the placeholders whose hash has nine digits in a row

ASSUME ModeAssumption == Mode \in {"none", "basic", "strict"}

Typed(classes) == [k \in DOMAIN classes |-> [c |-> classes[k], of |-> <<>>]]

Entry(tag, original) == [c |-> tag, of |-> original]

HashClasses == {"digits", "hash"}

Placeholder(entry) ==
    <<entry,
      [c |-> IF entry \in DigitHashed THEN "digits" ELSE "hash",
       of |-> <<entry>>]>>

IsPlaceholderPiece(piece) == piece.of # <<>>

(* Lengths of <TAG_...> with its sixteen hash digits. *)
Length == [PRIVATE_KEY |-> 30, ETH_ADDR |-> 27, API_KEY |-> 26,
           CUSTOM |-> 25, EMAIL |-> 24, PHONE |-> 24, URL |-> 22]

-----------------------------------------------------------------------------
(* The rules. *)

NameClasses == {"name", "word", "digits", "hexes", "sk", "acme", "corp", "0x"}

(* Whether a text, as a whole, is a match of a rule.                       *)
Matches(tag, s) ==
    LET c == [k \in DOMAIN s |-> s[k].c]
        n == Len(s)
    IN  CASE tag = "PRIVATE_KEY" -> c = <<"pem">>
          [] tag = "API_KEY" -> c = <<"sk">>
          [] tag = "EMAIL" ->
                /\ n >= 3 /\ c[n - 1] = "@" /\ c[n] = "host"
                /\ \A k \in 1..(n - 2) : c[k] \in NameClasses
          [] tag = "PHONE" ->
                /\ c[1] = "digits" /\ c[n] = "digits"
                /\ \A k \in 1..n : c[k] \in {"digits", "sp"}
          [] tag = "ETH_ADDR" ->
                n = 3 /\ c[1] = "0x" /\ {c[2], c[3]} \subseteq {"hexes", "digits"}
          [] tag = "URL" ->
                n >= 2 /\ c[1] = "http" /\ \A k \in 1..n : c[k] # "sp"

Rules == <<"PRIVATE_KEY", "API_KEY", "EMAIL", "PHONE", "ETH_ADDR">>
            \o (IF Mode = "strict" THEN <<"URL">> ELSE <<>>)

Blank(term) == \A k \in DOMAIN term : term[k].c = "sp"

(* What of a text a rule matches. *)
Found(tag, text) ==
    LET found(i) == {SubSeq(text, i, j) : j \in i..Len(text)}
    IN  {s \in UNION {found(i) : i \in DOMAIN text} : Matches(tag, s)}

(* replace_all: leftmost matches, each as long as it can be, give way to   *)
(* what "by" has for them; the hits are those that did.                    *)
Replaced(text, by) ==
    LET from[i \in 1..(Len(text) + 1)] ==
            IF i > Len(text) THEN [text |-> <<>>, hits |-> {}]
            ELSE LET ends == {j \in i..Len(text) :
                                SubSeq(text, i, j) \in DOMAIN by}
                     end == IF ends = {} THEN i ELSE Max(ends)
                     part == SubSeq(text, i, end)
                     rest == from[end + 1]
                 IN  IF ends = {}
                     THEN [text |-> part \o rest.text, hits |-> rest.hits]
                     ELSE [text |-> by[part] \o rest.text,
                           hits |-> rest.hits \cup {part}]
    IN  from[1]

(* One rule over a text, with the entries it adds to the map.              *)
Pass(state, tag, found) ==
    LET replaced == Replaced(state.text,
                             [s \in found |-> Placeholder(Entry(tag, s))])
    IN  [text |-> replaced.text,
         entries |-> state.entries \cup {Entry(tag, s) : s \in replaced.hits}]

(* redact's passes: the rules in order, then the terms in the order given. *)
Passes(terms) == Len(Rules) + Len(terms)

(* What a pass looks for in a text, and the tag of what it finds.  A term  *)
(* is of typed pieces: one that also occurs within a tag or a hash, such   *)
(* as "KEY", is not looked for there, though redact_literal does.          *)
Sought(text, terms, n) ==
    IF n <= Len(Rules)
    THEN [tag |-> Rules[n], found |-> Found(Rules[n], text)]
    ELSE [tag |-> "CUSTOM",
          found |-> {t \in {terms[n - Len(Rules)]} : ~Blank(t)}]

(* Mutant: the terms come before the rules. *)
PassedTermsFirst(state, terms, n) ==
    LET turned == IF n <= Len(terms) THEN Len(Rules) + n ELSE n - Len(terms)
        sought == Sought(state.text, terms, turned)
    IN  Pass(state, sought.tag, sought.found)

Passed(state, terms, n) ==
    LET sought == Sought(state.text, terms, n)
    IN  Pass(state, sought.tag, sought.found)

Redacted(text, terms) ==
    LET raw == [text |-> text, entries |-> {}]
        after[n \in 0..Passes(terms)] ==
            IF n = 0 THEN raw ELSE Passed(after[n - 1], terms, n)
    IN  IF Mode = "none" THEN raw ELSE after[Passes(terms)]

Redact(text, terms) == Redacted(text, terms).text
Entries(text, terms) == Redacted(text, terms).entries

(* add_custom_term. *)
AddCustomTerm(terms, term) ==
    IF Blank(term) \/ term \in Range(terms) THEN terms ELSE Append(terms, term)

(* More terms, added one after the other. *)
Merged(terms, more) ==
    LET merged[n \in 0..Len(more)] ==
            IF n = 0 THEN terms ELSE AddCustomTerm(merged[n - 1], more[n])
    IN  merged[Len(more)]

-----------------------------------------------------------------------------
(* rehydrate: one pass over the placeholders, the longer ones first; those *)
(* of one length come in the order of a hash map, which is any order.  A   *)
(* placeholder in neither the text nor an original changes nothing.        *)

Restore(text, entry) ==
    Replaced(text, [s \in {Placeholder(entry)} |-> entry.of]).text

Restored(text, order) ==
    LET out[n \in 0..Len(order)] ==
            IF n = 0 THEN text ELSE Restore(out[n - 1], order[n])
    IN  out[Len(order)]

Lengths == <<30, 27, 26, 25, 24, 22>>

Rehydrations(text, map) ==
    LET there == {e \in map : e \in Range(text)
                                \/ \E f \in map : e \in Range(f.of)}
        group(n) == {e \in there : Length[e.c] = Lengths[n]}
        outs[n \in 0..Len(Lengths)] ==
            IF n = 0 THEN {text}
            ELSE {Restored(out, order) :
                    out \in outs[n - 1], order \in SetToSeqs(group(n))}
    IN  outs[Len(Lengths)]
-----------------------------------------------------------------------------
(* What can become of placeholders. *)

IsTag(piece) == IsPlaceholderPiece(piece) /\ piece.c \in DOMAIN Length

(* The placeholders a text begins. *)
Placeholders(text) == {piece \in Range(text) : IsTag(piece)}

(* A placeholder whose original holds another one, or the hash of one: it  *)
(* may come back when the other's turn is over.                            *)
Tangled(text) ==
    \E outer \in Placeholders(text) :
        \E piece \in Range(outer.of) : IsPlaceholderPiece(piece)

(* A placeholder without its hash, or a hash without a placeholder.        *)
Torn(text) ==
    \E k \in DOMAIN text :
        \/ /\ IsTag(text[k])
           /\ k = Len(text) \/ text[k + 1] # Placeholder(text[k])[2]
        \/ /\ IsPlaceholderPiece(text[k]) /\ ~IsTag(text[k])
           /\ k = 1 \/ ~IsTag(text[k - 1])

(* What a piece stands for, a placeholder's tag for all of its original,   *)
(* and what a text does.                                                   *)
Origin(piece) ==
    IF ~IsPlaceholderPiece(piece) THEN <<piece>>
    ELSE IF IsTag(piece) THEN piece.of ELSE <<>>

Originals(text) == [s \in {<<p>> : p \in Range(text)} |-> Origin(s[1])]

Expanded(text) == Replaced(text, Originals(text)).text

-----------------------------------------------------------------------------
(* The passes again, on pieces that carry their place in the text (none, 0,*)
(* for what a pass puts in): which places each placeholder was put for.    *)

Placed(text) == [k \in DOMAIN text |-> [piece |-> text[k], at |-> k]]

Pieces(placed) == [k \in DOMAIN placed |-> placed[k].piece]

Places(placed) == {x.at : x \in Range(placed)} \ {0}

PlacedPass(state, terms, n) ==
    LET text == state.text
        sought == Sought(Pieces(text), terms, n)
        parts(i) == {SubSeq(text, i, j) : j \in i..Len(text)}
        finds == {s \in UNION {parts(i) : i \in DOMAIN text} :
                    Pieces(s) \in sought.found}
        mark(s) == [k \in 1..2 |->
            [piece |-> Placeholder(Entry(sought.tag, Pieces(s)))[k], at |-> 0]]
        replaced == Replaced(text, [s \in finds |-> mark(s)])
    IN  [text |-> replaced.text,
         cuts |-> state.cuts \cup
                    {[rank |-> n, at |-> Places(s), head |-> s[1].at] :
                        s \in replaced.hits}]

(* The places each pass took, placeholder by placeholder, and the first.   *)
Cuts(text, terms) ==
    LET after[n \in 0..Passes(terms)] ==
            IF n = 0 THEN [text |-> Placed(text), cuts |-> {}]
            ELSE PlacedPass(after[n - 1], terms, n)
    IN  after[Passes(terms)].cuts
=============================================================================
