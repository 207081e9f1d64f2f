------------------------------- MODULE Reader -------------------------------
(***************************************************************************)
(* How main.c takes requests from the input: with fgets into a buffer of   *)
(* fixed length, which ends a chunk at a newline or when the buffer is     *)
(* full, and a search for quotes in a window of the chunk. The input is a  *)
(* sequence of characters. Only quotes and newlines matter to the reader:  *)
(* a request type with its blank, a document name and an id are one        *)
(* character each, and so is any other character of a content.             *)
(***************************************************************************)
EXTENDS Integers, SequencesExt

CONSTANTS
  RequestLength,   (* REQUEST_LENGTH                                       *)
  ContentLength,   (* DOC_CONTENT_LENGTH                                   *)
  Names,           (* document names and server ids                        *)
  MaxContent,      (* bound: characters in a content of the input          *)
  MaxRequests      (* bound: requests in the input                         *)

(* REQUEST_LENGTH leaves room for the type and the name of the longest     *)
(* request, and for the quotes and the newline.                            *)
ASSUME LengthAssumption ==
  /\ MaxContent \in 0 .. ContentLength
  /\ RequestLength - ContentLength >= 8

Quote == "quote"
Newline == "newline"
Blank == "blank"

Types == {"EDIT", "GET", "ADD_SERVER", "REMOVE_SERVER"}
Unknown == "PUT"

Chars == {Quote, Newline, Blank, Unknown, "other"} \union Types \union Names

Request(t, n, c) == [type |-> t, name |-> n, content |-> c]
Nothing == Request("none", "none", << >>)

InputRequests ==
  LET contents == UNION {[1 .. n -> {"other", Newline}] : n \in 0 .. MaxContent}
  IN  {Request("EDIT", n, c) : n \in Names, c \in contents}
        \union {Request(t, n, << >>) : t \in (Types \ {"EDIT"}) \union {Unknown},
                                       n \in Names}

(* The characters that stand for a request in the input. *)
Written(r) ==
  CASE r.type = "EDIT" -> <<"EDIT", Quote, r.name, Quote, Blank, Quote>>
                            \o r.content \o <<Quote, Newline>>
    [] r.type = "GET"  -> <<"GET", Quote, r.name, Quote, Newline>>
    [] OTHER           -> <<r.type, r.name, Newline>>

WrittenAll(rs) ==
  IF rs = << >> THEN << >>
  ELSE FlattenSeq([i \in DOMAIN rs |-> Written(rs[i])])

VARIABLES
  requests,   (* the requests the input was written from                   *)
  cut,        (* the input ends before the last of them does               *)
  input,      (* what of the input is still to be read                     *)
  partial,    (* the request whose content is still incomplete, or Nothing *)
  read,       (* the requests read                                         *)
  status      (* "reading", or what the program exits with (DIE)           *)

vars == <<requests, cut, input, partial, read, status>>

TypeOK ==
  /\ requests \in Seq(InputRequests)
  /\ cut \in BOOLEAN
  /\ input \in Seq(Chars)
  /\ partial \in [type : {"none", "EDIT"}, name : Names \union {"none"},
                  content : Seq(Chars)]
  /\ read \in Seq([type : Types, name : Names, content : Seq(Chars)])
  /\ status \in {"reading", "insufficient requests", "unknown request type",
                 "document content is not properly quoted"}

Init ==
  /\ requests \in UNION {[1 .. n -> InputRequests] : n \in 1 .. MaxRequests}
  /\ LET file == WrittenAll(requests)
     IN  \E n \in {i \in DOMAIN file : file[i] = Newline} :
           input = SubSeq(file, 1, n) /\ cut = (n < Len(file))
  /\ partial = Nothing
  /\ read = << >>
  /\ status = "reading"

-----------------------------------------------------------------------------

(* fgets(buffer, n + 1, input_file) *)
Fgets(n) ==
  LET newlines == {i \in DOMAIN input : input[i] = Newline}
  IN  SubSeq(input, 1, Min({n, Len(input)} \union newlines))

Consume(chunk) == input' = SubSeq(input, Len(chunk) + 1, Len(input))

(* The positions of the quotes in the first n characters of a buffer. *)
Quotes(buffer, n) == {i \in 1 .. Min({n, Len(buffer)}) : buffer[i] = Quote}

(* read_quoted_string: where the quoted text ends, 0 if it does not within *)
(* the window, when its first quote is yet to be found.                    *)
Start(buffer, n) == Min(Quotes(buffer, n))

End(buffer, n) ==
  LET after == Quotes(buffer, n) \ {Start(buffer, n)}
  IN  IF after = {} THEN 0 ELSE Min(after)

(* The text between the quotes, or what follows the first one if there is  *)
(* no second in the window: strcpy goes on to the end of the chunk.        *)
Quoted(buffer, n) ==
  SubSeq(buffer, Start(buffer, n) + 1,
         IF End(buffer, n) = 0 THEN Len(buffer) ELSE End(buffer, n) - 1)

(* The name in a chunk, and what follows it (tmp_buffer). *)
NameIn(chunk) == Quoted(chunk, RequestLength)[1]

AfterName(chunk) == SubSeq(chunk, End(chunk, RequestLength) + 1, Len(chunk))

-----------------------------------------------------------------------------

(* The loop of apply_requests has requests left to read. *)
Wanting ==
  /\ status = "reading"
  /\ partial = Nothing
  /\ Len(read) < Len(requests)

Exit(why) == status' = why /\ UNCHANGED <<requests, cut, input, partial, read>>

(* The content fits in what calloc gave it. Nothing is said of a program   *)
(* that wrote beyond: its behaviours end here.                             *)
Fits(r) == Len(r.content) <= ContentLength

OutOfRequests == Wanting /\ input = << >> /\ Exit("insufficient requests")

(* get_request_type knows no request that begins like the chunk. *)
UnknownType ==
  /\ Wanting
  /\ input # << >>
  /\ input[1] \notin Types
  /\ Exit("unknown request type")

(* ADD_SERVER, REMOVE_SERVER and GET are complete in one chunk. *)
ReadShort ==
  /\ Wanting
  /\ input # << >>
  /\ input[1] \in Types \ {"EDIT"}
  /\ LET chunk == Fgets(RequestLength)
         name == IF input[1] = "GET" THEN NameIn(chunk) ELSE chunk[2]
     IN  /\ read' = Append(read, Request(input[1], name, << >>))
         /\ Consume(chunk)
  /\ UNCHANGED <<requests, cut, partial, status>>

(* Variant of ReadEdit that looks for the quotes in a shorter window. *)
ReadEditShortWindow ==
  /\ Wanting
  /\ input # << >>
  /\ input[1] = "EDIT"
  /\ LET chunk == Fgets(RequestLength)
         rest == AfterName(chunk)
         r == Request("EDIT", NameIn(chunk), Quoted(rest, ContentLength - 1))
     IN  /\ Consume(chunk)
         /\ Fits(r)
         /\ IF End(rest, ContentLength - 1) = 0
              THEN partial' = r /\ UNCHANGED read
              ELSE read' = Append(read, r) /\ UNCHANGED partial
  /\ UNCHANGED <<requests, cut, status>>

(* EDIT: the name is in the chunk; the content is complete if its closing  *)
(* quote is among the first ContentLength characters after the name.       *)
ReadEdit ==
  /\ Wanting
  /\ input # << >>
  /\ input[1] = "EDIT"
  /\ LET chunk == Fgets(RequestLength)
         rest == AfterName(chunk)
         r == Request("EDIT", NameIn(chunk), Quoted(rest, ContentLength))
     IN  /\ Consume(chunk)
         /\ Fits(r)
         /\ IF End(rest, ContentLength) = 0
              THEN partial' = r /\ UNCHANGED read
              ELSE read' = Append(read, r) /\ UNCHANGED partial
  /\ UNCHANGED <<requests, cut, status>>

NeverQuoted ==
  /\ status = "reading"
  /\ partial # Nothing
  /\ input = << >>
  /\ Exit("document content is not properly quoted")

(* Variant of ReadMore that copies the closing quote too. *)
ReadMoreWithQuote ==
  /\ status = "reading"
  /\ partial # Nothing
  /\ input # << >>
  /\ LET chunk == Fgets(ContentLength)
         quotes == Quotes(chunk, ContentLength)
         copied == IF quotes = {} THEN chunk ELSE SubSeq(chunk, 1, Min(quotes))
         r == [partial EXCEPT !.content = @ \o copied]
     IN  /\ Consume(chunk)
         /\ Fits(r)
         /\ IF quotes = {} THEN partial' = r /\ UNCHANGED read
              ELSE read' = Append(read, r) /\ partial' = Nothing
  /\ UNCHANGED <<requests, cut, status>>

(* The next chunk of a content, up to its first quote. What follows the    *)
(* quote in the chunk is dropped.                                          *)
ReadMore ==
  /\ status = "reading"
  /\ partial # Nothing
  /\ input # << >>
  /\ LET chunk == Fgets(ContentLength)
         quotes == Quotes(chunk, ContentLength)
         copied == IF quotes = {} THEN chunk ELSE SubSeq(chunk, 1, Min(quotes) - 1)
         r == [partial EXCEPT !.content = @ \o copied]
     IN  /\ Consume(chunk)
         /\ Fits(r)
         /\ IF quotes = {} THEN partial' = r /\ UNCHANGED read
              ELSE read' = Append(read, r) /\ partial' = Nothing
  /\ UNCHANGED <<requests, cut, status>>

Next ==
  \/ OutOfRequests \/ UnknownType \/ NeverQuoted
  \/ ReadShort \/ ReadEdit \/ ReadMore

Spec == Init /\ [][Next]_vars

-----------------------------------------------------------------------------
(* Properties.                                                             *)

(* The position of the last newline of a content, 0 if it is one line. *)
LastNewline(c) == SelectLastInSeq(c, LAMBDA x : x = Newline)

(* A content the reader takes. The closing quote of a single line has to be*)
(* in the window, which begins with the blank and the opening quote. A     *)
(* last line that fills the buffer up to its quote leaves a newline behind.*)
Comfortable(c) ==
  IF LastNewline(c) = 0 THEN Len(c) + 3 <= ContentLength
                     ELSE Len(c) - LastNewline(c) + 1 < ContentLength

ComfortableUpTo(n) == \A i \in 1 .. n : Comfortable(requests[i].content)

(* The requests read are those the input was written from, in order, with  *)
(* their names and contents: a content may hold newlines, and fgets ends a *)
(* chunk at each, so a line may be the end of a content or a request.      *)
ReadAsWritten ==
  TypeOK /\ (ComfortableUpTo(Len(read)) => IsPrefix(read, requests))

(* What is left of the requests, and whether the reader stands at it.      *)
Rest == SubSeq(requests, Len(read) + 1, Len(requests))

AtTheRest ==
  IF cut THEN IsPrefix(input, WrittenAll(Rest)) ELSE input = WrittenAll(Rest)

(* Between two requests the reader stands at the beginning of the next one,*)
(* exactly as long as every content was comfortable. Until then it exits   *)
(* only if the next request is of no known type or the file ends within it.*)
StandsAtARequest ==
  /\ status = "reading" /\ partial = Nothing =>
       (AtTheRest <=> ComfortableUpTo(Len(read)))
  /\ status # "reading" /\ ComfortableUpTo(Len(read) + 1) =>
       IF status = "unknown request type" THEN Head(Rest).type = Unknown ELSE cut
=============================================================================
