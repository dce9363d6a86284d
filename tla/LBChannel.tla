------------------------------ MODULE LBChannel ------------------------------
(***************************************************************************)
(* What the channel lbstore promises its users (pkg/controller): the       *)
(* handlers hand LBStore pointers to the workers in the order they were    *)
(* sent, at most Capacity of them wait, and at most one is being applied   *)
(* to the kernel at any time.  EventQueue shows how the mutex, the         *)
(* condition variable and the buffered channel keep that promise;          *)
(* Controller relies on it.                                                *)
(***************************************************************************)
EXTENDS Naturals, Sequences

CONSTANTS Stores,    \* the LBStore pointers: plbdata and clbdata
          First,     \* the store Initial sends before any goroutine starts
          Capacity,  \* make(chan *LBStore, 3)
          NoStore    \* nothing is being applied

VARIABLES channel,   \* the stores sent and not yet received, oldest first
          applying   \* the store a worker applies to the kernel, or NoStore

chanVars == <<channel, applying>>

ChanInit == /\ channel = <<First>>
            /\ applying = NoStore

\* A handler sends its store: never past the capacity, never during an apply.
Put(s) == /\ applying = NoStore
          /\ Len(channel) < Capacity
          /\ channel' = Append(channel, s)
          /\ UNCHANGED applying

\* A worker takes the oldest store and starts to apply it.
Take == /\ applying = NoStore
        /\ channel # <<>>
        /\ applying' = Head(channel)
        /\ channel' = Tail(channel)

\* The worker is done with the store.
Done == /\ applying # NoStore
        /\ applying' = NoStore
        /\ UNCHANGED channel

ChanNext == \/ \E s \in Stores : Put(s)
            \/ Take
            \/ Done

ChanSpec == ChanInit /\ [][ChanNext]_chanVars
==============================================================================
