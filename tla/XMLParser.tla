------------------------------- MODULE XMLParser -------------------------------
(***************************************************************************)
(* XMLParser (Format/XMLParser.h, XMLParser.cpp): a parser which tells the *)
(* elements of a document by callbacks, stops when one of them returns     *)
(* false, and goes on at the next call of parse(); a callback, or the      *)
(* program between two calls, may save() the state and reset() to it.      *)
(*                                                                          *)
(* A document is a sequence of tokens <<kind, name>>; "bad" stands for an   *)
(* element that the document cuts or malforms.  Spaces, attributes and the *)
(* bytes of a text are left out, as is an inner "]": CDATA loses it.  So    *)
(* are onEndXMLDocument(), which tells how parse() ends, and the refusal of *)
(* a parse() inside a callback (XMLParser.cpp:50-61).                       *)
(*                                                                          *)
(* Left out, for the undefined behaviour that follows: a reset() in         *)
(* onStartXMLElement of an element <x/>, whose tag is popped all the same   *)
(* from the tags of the new state (XMLParser.cpp:366).                      *)
(***************************************************************************)
EXTENDS Naturals, Sequences, SequencesExt, FiniteSets

CONSTANTS
  Documents, \* the documents to parse: sequences of tokens
  MaxResets  \* bound: calls of save() and reset()

VARIABLES
  doc,     \* _packet
  state,   \* _started, _ex, _current (the next token) and _tags: what save() keeps
  inner,   \* _pInner: tokens of the inner value, or Null
  result,  \* of parse(): "ready", "running", "done", "paused" or "error"
  saved,   \* an XMLState with the events told until then, or None
  told,    \* events told since the start of the document
  stale,   \* _pInner has survived to a reset(state)
  resets   \* calls of save() and reset()

parserVars == <<doc, state, inner, result, saved, told, stale, resets>>

None == <<>>
Null == {}
Inner(tokens) == {tokens}   \* a non-null _pInner, which may be empty

Blank == [started |-> FALSE, ex |-> FALSE, current |-> 1, tags |-> <<>>]

ParserInit ==
  /\ doc \in Documents /\ state = Blank /\ inner = Null /\ result = "ready"
  /\ saved = None /\ told = <<>> /\ stale = FALSE /\ resets = 0

-----------------------------------------------------------------------------
AtEnd(s) == s.current > Len(doc)
Next(s) == doc[s.current]
Full(s) == s.tags # <<>> /\ Last(s.tags).full
Popped(s) == [s EXCEPT !.tags = Front(@)]
Past(s) == [s EXCEPT !.current = @ + 1]

Event(kind, name, at) == [kind |-> kind, name |-> name, at |-> at]

\* A callback in the state s: it goes on, pauses, saves the state, or changes it, and
\* parse() starts over with the new one.
Goes(s) == state' = s /\ result' = "running" /\ UNCHANGED <<saved, stale, resets>>

Pauses(s, mayEnd) ==
  /\ state' = s /\ UNCHANGED <<saved, stale, resets>>
  /\ result' = IF mayEnd /\ AtEnd(s) /\ s.tags = <<>> THEN "done" ELSE "paused"

Saves(s, events) ==
  /\ resets < MaxResets /\ resets' = resets + 1
  /\ state' = s /\ saved' = <<s, events>> /\ result' = "running" /\ UNCHANGED stale

Resets ==
  /\ resets < MaxResets /\ resets' = resets + 1
  /\ state' = Blank /\ inner' = Null /\ told' = <<>> /\ stale' = FALSE /\ UNCHANGED saved

\* reset(state) leaves _pInner as it is: "value", when the callback has been told.
Restores(value) ==
  /\ saved # None /\ resets < MaxResets /\ resets' = resets + 1
  /\ state' = saved[1] /\ told' = saved[2] /\ inner' = value
  /\ stale' = (stale \/ value # Null) /\ UNCHANGED saved

Answers(s, event, value, mayEnd) ==
  /\ told' = Append(told, event) /\ inner' = value
  /\ Goes(s) \/ Pauses(s, mayEnd) \/ Saves(s, told')

Callback(s, event, value, mayEnd) ==
  \/ Answers(s, event, value, mayEnd)
  \/ (Resets \/ Restores(value)) /\ result' = (IF state'.ex THEN "error" ELSE "running")

-----------------------------------------------------------------------------
(* parse() *)

Parse ==
  /\ result \in {"ready", "paused"} /\ result' = (IF state.ex THEN "error" ELSE "running")
  /\ UNCHANGED <<doc, state, inner, saved, told, stale, resets>>

Running == result = "running" /\ UNCHANGED doc

\* The end of an element <x/>, at once or at the start of the next parse().
EndFull ==
  /\ Running /\ Full(state)
  /\ Callback(Popped(state), Event("end", Last(state.tags).name, state.current - 1), inner, TRUE)

Reading == Running /\ ~Full(state)
ReadingElement == Reading /\ ~AtEnd(state) /\ Next(state)[1] # "text"

\* Before the first element, or at the end of a document which has none.
StartDocument ==
  /\ Reading /\ ~state.started /\ (~AtEnd(state) => Next(state)[1] # "text")
  /\ Callback([state EXCEPT !.started = TRUE], Event("document", "", 0), inner, FALSE)

\* The inner value ends with the next "<", which is not the one of a CDATA. The packet
\* takes _pInner.
TellInner ==
  /\ ReadingElement /\ state.started /\ inner # Null /\ Next(state)[1] # "cdata"
  /\ state.tags # <<>>
  /\ \E tokens \in inner :
       Callback(state, Event("inner", Last(state.tags).name, tokens), Null, FALSE)

Element(kind) == ReadingElement /\ state.started /\ inner = Null /\ Next(state)[1] = kind

Fails == state' = [state EXCEPT !.ex = TRUE] /\ result' = "error"
         /\ UNCHANGED <<doc, inner, saved, told, stale, resets>>

\* Mutant of StartElement: the tag is pushed when the callback has returned.
StartElementLate(full) ==
  LET name == Next(state)[2]
      event == Event("start", name, state.current)
      s == [Past(state) EXCEPT !.tags = Append(@, [name |-> name, full |-> full])]
  IN  /\ Element(IF full THEN "full" ELSE "open")
      /\ told' = Append(told, event) /\ UNCHANGED inner
      /\ Goes(s) \/ Pauses(Past(state), TRUE) \/ Saves(s, told')

\* The tag is pushed before the callback, which may save it.
StartElement(full) ==
  LET name == Next(state)[2]
      event == Event("start", name, state.current)
      s == [Past(state) EXCEPT !.tags = Append(@, [name |-> name, full |-> full])]
  IN  /\ Element(IF full THEN "full" ELSE "open")
      /\ IF full THEN Answers(s, event, inner, TRUE) ELSE Callback(s, event, inner, TRUE)

EndElement ==
  /\ Element("close") /\ state.tags # <<>> /\ Last(state.tags).name = Next(state)[2]
  /\ Callback(Past(Popped(state)), Event("end", Next(state)[2], state.current), inner, TRUE)

Infos ==
  /\ Element("info")
  /\ Callback(Past(state), Event("info", Next(state)[2], state.current), inner, TRUE)

Comment ==
  /\ Element("comment") /\ state' = Past(state)
  /\ UNCHANGED <<doc, inner, result, saved, told, stale, resets>>

\* A text, or a CDATA, goes to the inner value of its element.
Value ==
  /\ Reading /\ ~AtEnd(state)
  /\ \/ Next(state)[1] = "text"
     \/ Next(state)[1] = "cdata" /\ state.started
  /\ state.tags # <<>> \/ (inner # Null /\ Next(state)[1] = "text")
  /\ inner' = Inner((IF inner = Null THEN <<>> ELSE CHOOSE t \in inner : TRUE)
                      \o <<state.current>>)
  /\ state' = Past(state)
  /\ UNCHANGED <<doc, result, saved, told, stale, resets>>

\* An element which is malformed, an end which is not the one of the last tag, or a
\* value out of any element.
Malformed ==
  /\ \/ Element("bad")
     \/ Element("close") /\ (state.tags # <<>> => Last(state.tags).name # Next(state)[2])
     \/ /\ Reading /\ ~AtEnd(state) /\ state.tags = <<>>
        /\ \/ Next(state)[1] = "text" /\ inner = Null
           \/ Next(state)[1] = "cdata" /\ state.started
  /\ Fails

\* No more data: an element which is not ended is an error.
End ==
  /\ Reading /\ AtEnd(state) /\ state.started
  /\ IF state.tags # <<>> THEN Fails
     ELSE result' = "done" /\ UNCHANGED <<doc, state, inner, saved, told, stale, resets>>

-----------------------------------------------------------------------------
\* The program resets the parser between two calls of parse(), or saves its state there.
Outside ==
  /\ result # "running" /\ UNCHANGED doc
  /\ \/ (Resets \/ Restores(inner)) /\ result' = "ready"
     \/ /\ resets < MaxResets /\ resets' = resets + 1
        /\ saved' = <<state, told>> /\ UNCHANGED <<state, inner, result, told, stale>>

ParserNext ==
  \/ Parse \/ Outside
  \/ EndFull \/ StartDocument \/ TellInner \/ EndElement \/ Infos \/ Comment \/ Value
  \/ Malformed \/ End
  \/ \E full \in BOOLEAN : StartElement(full)

-----------------------------------------------------------------------------
(* Correctness *)

\* The names of the elements that events have started and not ended; "?" for a wrong one.
Opened(events) ==
  LET Told(names, e) ==
        CASE e.kind = "start" -> Append(names, e.name)
          [] e.kind = "end" -> IF names # <<>> /\ Last(names) = e.name THEN Front(names) ELSE <<"?">>
          [] e.kind = "inner" -> IF names # <<>> /\ Last(names) = e.name THEN names ELSE <<"?">>
          [] OTHER -> names
  IN  FoldLeft(Told, <<>>, events)

\* The reference: a document whose elements are nested, with no value out of them.
WellFormed ==
  LET Read(names, token) ==
        CASE names = <<"?">> \/ token[1] = "bad" -> <<"?">>
          [] token[1] = "open" -> Append(names, token[2])
          [] token[1] = "close" -> IF names # <<>> /\ Last(names) = token[2] THEN Front(names) ELSE <<"?">>
          [] token[1] \in {"text", "cdata"} -> IF names = <<>> THEN <<"?">> ELSE names
          [] OTHER -> names
  IN  FoldLeft(Read, <<>>, doc) = <<>>

\* The tokens of which an event speaks, and the kinds of the events which speak of one.
About(e) == IF e.kind = "inner" THEN e.at ELSE <<e.at>>
Kinds(i) == [k \in 1 .. Len(SelectSeq(told, LAMBDA e : Contains(About(e), i))) |->
               SelectSeq(told, LAMBDA e : Contains(About(e), i))[k].kind]

Expected(i) ==
  CASE i >= state.current -> <<>>
    [] doc[i][1] = "open" -> <<"start">>
    [] doc[i][1] = "full" -> IF Full(state) /\ i = state.current - 1 THEN <<"start">> ELSE <<"start", "end">>
    [] doc[i][1] = "close" -> <<"end">>
    [] doc[i][1] = "info" -> <<"info">>
    [] doc[i][1] \in {"text", "cdata"} -> IF \E t \in inner : Contains(t, i) THEN <<>> ELSE <<"inner">>
    [] OTHER -> <<>>

\* Whatever the pauses, the saves and the resets: every token read is told once, in the
\* order of the document and under its element, and the document ends without error if
\* and only if it is well formed. Excused: a value which was still to be told when
\* reset(state) has left it to another element (XMLParser.cpp:32-40).
EventsAreExact ==
  ~stale =>
    /\ \A j, k \in DOMAIN told : j < k => About(told[j])[1] <= About(told[k])[1]
    /\ Kinds(0) = IF state.started THEN <<"document">> ELSE <<>>
    /\ \A i \in DOMAIN doc : Kinds(i) = Expected(i)
    /\ Opened(told) = [k \in DOMAIN state.tags |-> state.tags[k].name]
    /\ result = "done" => AtEnd(state) /\ WellFormed
    /\ state.ex => ~WellFormed
=============================================================================
