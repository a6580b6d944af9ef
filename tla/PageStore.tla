------------------------------ MODULE PageStore ------------------------------
(***************************************************************************)
(* What the buffer pool promises its callers, with no frames in it.        *)
(*                                                                         *)
(* A page has one current content, which every caller that has the page    *)
(* open reads and writes, and a stored content, which is what survives     *)
(* when the process ends.  The current content changes in four ways only:  *)
(* a caller that has the page open writes it, a caller formats a page that *)
(* nobody has open, a page that nobody has open is deleted from memory, or *)
(* the process ends; the last two fall back to the stored content.         *)
(* Behind the callers' back a stored content may at any time catch up with *)
(* the current one, or be spoiled by a write that fails half-way.          *)
(***************************************************************************)
EXTENDS Integers

CONSTANTS
    Client,     \* the pins: each opens one page at a time
    PageId,     \* the page numbers
    NoPage,     \* what a closed pin refers to
    Content,    \* the contents a caller may write
    Zero,       \* the content of a formatted page
    Torn        \* the content left by a write that failed half-way

VARIABLES
    content,    \* the current content of each page
    stored,     \* the content each page has on the disk
    open        \* the page each client has open

vars == <<content, stored, open>>

NotOpen(p) == \A c \in Client : open[c] # p

Init ==
    /\ content = [p \in PageId |-> Zero]
    /\ stored = content
    /\ open = [c \in Client |-> NoPage]

\* Pages written back, completely or not, while something else happens.
WriteBack ==
    /\ stored' \in [PageId -> Content \cup {Zero, Torn}]
    /\ \A p \in PageId : stored'[p] \in {stored[p], content[p], Torn}

Open(c, p) ==
    /\ open[c] = NoPage
    /\ open' = [open EXCEPT ![c] = p]
    /\ UNCHANGED content
    /\ WriteBack

Format(c, p) ==
    /\ open[c] = NoPage
    /\ NotOpen(p)
    /\ open' = [open EXCEPT ![c] = p]
    /\ content' = [content EXCEPT ![p] = Zero]
    /\ WriteBack

Write(c, v) ==
    /\ open[c] # NoPage
    /\ content' = [content EXCEPT ![open[c]] = v]
    /\ UNCHANGED <<stored, open>>

Close(c) ==
    /\ open[c] # NoPage
    /\ open' = [open EXCEPT ![c] = NoPage]
    /\ UNCHANGED <<content, stored>>

Flush ==
    /\ UNCHANGED <<open, content>>
    /\ WriteBack

Delete(p) ==
    /\ NotOpen(p)
    /\ content' = [content EXCEPT ![p] = stored[p]]
    /\ UNCHANGED <<stored, open>>

\* The process ends, in order or by a crash, and is started again.
Restart ==
    /\ open' = [c \in Client |-> NoPage]
    /\ content' = stored'
    /\ WriteBack

Next ==
    \/ Flush
    \/ Restart
    \/ \E c \in Client, v \in Content : Write(c, v)
    \/ \E c \in Client : Close(c)
    \/ \E c \in Client, p \in PageId : Open(c, p) \/ Format(c, p)
    \/ \E p \in PageId : Delete(p)

Spec == Init /\ [][Next]_vars
=============================================================================
