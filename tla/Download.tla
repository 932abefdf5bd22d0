------------------------------ MODULE Download ------------------------------
(***************************************************************************)
(* hw2/download/download.c: main() reads addresses with fgets and forks a  *)
(* child per address.  The children inherit the open file: exit() in a     *)
(* child moves the file's offset, which main() shares, back by what the    *)
(* child's copy of the read buffer still holds, and main() reads on from   *)
(* there, even in the middle of an address of which it has a part.  An     *)
(* address is the sequence of the places in the file its characters come   *)
(* from.                                                                   *)
(***************************************************************************)
EXTENDS Naturals, Sequences

CONSTANTS
  NumChars,   \* the size of the file
  Newlines,   \* the places of its newlines
  BlockSize,  \* how many characters one read() fetches
  URL_SIZE,   \* sizeof(url) - 1: the longest address fgets returns
  MAX_URLS

Chars == 1 .. NumChars

(* The last line ends with a newline too, and every line fits into url.     *)
DownloadAssumption ==
  /\ NumChars \in Nat /\ Newlines \subseteq Chars
  /\ BlockSize \in Nat \ {0} /\ URL_SIZE \in Nat \ {0} /\ MAX_URLS \in Nat \ {0}
  /\ \A p \in Chars : \E e \in Newlines : p <= e /\ e < p + URL_SIZE

VARIABLES
  main,      \* where main() stands
  num_urls,
  offset,    \* where the next read() starts, in the open file all share
  buffered,  \* the characters main() has read and fgets has not returned
  at,        \* at[k]: where the child that writes output_k.dat stands
  url,       \* url[k]: the address it was forked for
  unread     \* unread[k]: how much its copy of the buffer still holds

downloadVars == <<main, num_urls, offset, buffered, at, url, unread>>

Kids == 0 .. MAX_URLS - 1

TypeOK ==
  /\ main \in {"reads", "waits", "done", "failed"}
  /\ num_urls \in 0 .. MAX_URLS
  /\ offset \in 0 .. NumChars
  /\ buffered \in Seq(Chars)
  /\ at \in [Kids -> {"unborn", "downloads", "ended"}]
  /\ url \in [Kids -> Seq(Chars)]
  /\ unread \in [Kids -> Nat]

Init ==
  /\ main = "reads" /\ num_urls = 0
  /\ offset = 0 /\ buffered = <<>>
  /\ at = [k \in Kids |-> "unborn"]
  /\ url = [k \in Kids |-> <<>>]
  /\ unread = [k \in Kids |-> 0]

-----------------------------------------------------------------------------
(* fgets returns what comes up to the first newline, or fills url; it goes  *)
(* on reading as long as it has neither,                                    *)
HasLine == \E n \in DOMAIN buffered : buffered[n] \in Newlines \/ n = URL_SIZE

EndsLine(n) ==
  /\ buffered[n] \in Newlines \/ n = URL_SIZE
  /\ \A j \in 1 .. n - 1 : buffered[j] \notin Newlines /\ j # URL_SIZE

FillBuffer ==
  /\ main = "reads" /\ ~HasLine /\ offset < NumChars
  /\ LET n == IF offset + BlockSize < NumChars THEN BlockSize ELSE NumChars - offset
     IN  /\ buffered' = buffered \o [j \in 1 .. n |-> offset + j]
         /\ offset' = offset + n
  /\ UNCHANGED <<main, num_urls, at, url, unread>>

(* finds the file at its end,                                               *)
EndOfFile ==
  /\ main = "reads" /\ buffered = <<>> /\ offset = NumChars
  /\ main' = "waits"
  /\ UNCHANGED <<num_urls, offset, buffered, at, url, unread>>

TakeLine(n) ==
  /\ main = "reads" /\ EndsLine(n)
  /\ buffered' = SubSeq(buffered, n + 1, Len(buffered))

(* or returns a line, for which there is a child up to the limit.           *)
ForkFor(n) ==
  /\ num_urls < MAX_URLS
  /\ at' = [at EXCEPT ![num_urls] = "downloads"]
  /\ url' = [url EXCEPT ![num_urls] = SubSeq(buffered, 1, n)]
  /\ unread' = [unread EXCEPT ![num_urls] = Len(buffered) - n]
  /\ num_urls' = num_urls + 1
  /\ UNCHANGED <<main, offset>>

(* Mutant: fgets is called once more per pass.                              *)
ForkChild_SkipsLine ==
  \E n \in DOMAIN buffered :
    /\ main = "reads" /\ EndsLine(n) /\ ForkFor(n)
    /\ LET later == {m \in n + 1 .. Len(buffered) : buffered[m] \in Newlines}
       IN  buffered' = IF later = {} THEN <<>>
                       ELSE SubSeq(buffered, (CHOOSE m \in later : \A l \in later : m <= l) + 1,
                                   Len(buffered))

ForkChild == \E n \in DOMAIN buffered : TakeLine(n) /\ ForkFor(n)

ForkFails ==
  /\ \E n \in DOMAIN buffered : TakeLine(n)
  /\ num_urls < MAX_URLS /\ main' = "failed"
  /\ UNCHANGED <<num_urls, offset, at, url, unread>>

(* The limit is looked at when the line has been read. *)
LimitReached ==
  /\ \E n \in DOMAIN buffered : TakeLine(n)
  /\ num_urls = MAX_URLS /\ main' = "waits"
  /\ UNCHANGED <<num_urls, offset, at, url, unread>>

WaitForAll ==
  /\ main = "waits"
  /\ \A k \in Kids : at[k] # "downloads"
  /\ main' = "done"
  /\ UNCHANGED <<num_urls, offset, buffered, at, url, unread>>

(* The child has stored what it got, or not; exit() synchronises the open   *)
(* input file: lseek() by -unread, which fails before the file's beginning. *)
ChildExits(k) ==
  /\ at[k] = "downloads"
  /\ at' = [at EXCEPT ![k] = "ended"]
  /\ offset' = IF unread[k] <= offset THEN offset - unread[k] ELSE offset
  /\ UNCHANGED <<main, num_urls, buffered, url, unread>>

parent == FillBuffer \/ EndOfFile \/ ForkChild \/ ForkFails \/ LimitReached \/ WaitForAll

Next == parent \/ \E k \in Kids : ChildExits(k)

Spec == Init /\ [][Next]_downloadVars

-----------------------------------------------------------------------------
(***************************************************************************)
(* Properties.                                                             *)
(***************************************************************************)
AtRest == main \in {"done", "failed"} /\ \A k \in Kids : at[k] # "downloads"

(* Where the lines of the file begin; the address a line holds; and one     *)
(* joined from a part and what main() read when the offset had moved back.  *)
Starts == {p \in Chars : p = 1 \/ p - 1 \in Newlines}

Whole(u) == \A j \in DOMAIN u : u[j] = u[1] + j - 1 /\ (u[j] \in Newlines <=> j = Len(u))

Torn(u) == \E j \in 1 .. Len(u) - 1 : u[j + 1] <= u[j]

(* A child has been forked for the line that begins at s. *)
HasChild(s) ==
  \E k \in Kids : url[k] # <<>> /\ url[k][1] = s /\ (Whole(url[k]) \/ Torn(url[k]))

(* However the children move the offset under main(), it reads lines again  *)
(* but never past one: before it forks a child for anything from a line or  *)
(* behind it, there is a child for that line, and when main() has stopped   *)
(* at the end of the file and not at the limit, for every line.  What the   *)
(* child was given is the address in that line, unless the offset moved     *)
(* back in the middle of reading it.                                        *)
NoAddressSkipped ==
  /\ \A k \in Kids : \A j \in DOMAIN url[k] : \A s \in Starts : s <= url[k][j] => HasChild(s)
  /\ main = "done" /\ num_urls < MAX_URLS => \A s \in Starts : HasChild(s)

=============================================================================
