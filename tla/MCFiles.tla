------------------------------ MODULE MCFiles ------------------------------
(***************************************************************************)
(* Files of a few bytes at both ends of a memory of sixteen pages, with    *)
(* every combination of bounds around them, and self-extracting ones that  *)
(* lie far from the packed stream, touch it and run into it.               *)
(***************************************************************************)
EXTENDS Sfx

Plain == [addr |-> 40, size |-> 8, cbm |-> TRUE, verify |-> FALSE, inplace |-> FALSE,
          from |-> NotGiven, to |-> NotGiven, prefix_from |-> NotGiven,
          prefix_file |-> NotGiven, relocate_origin |-> NotGiven,
          relocate_packed |-> NotGiven, exit_on_warn |-> FALSE,
          sfx |-> FALSE, small |-> FALSE, relocate_sfx |-> NotGiven]

Bounds == {NotGiven, 0, 40, 42, 45, 46, 50}

Ranges ==
  {[Plain EXCEPT !.from = f, !.to = t, !.prefix_from = p, !.cbm = c, !.relocate_origin = o] :
     f \in Bounds, t \in Bounds, p \in Bounds, c \in BOOLEAN, o \in {NotGiven, 40, 42}}

Sizes ==
  {[Plain EXCEPT !.addr = d, !.size = n, !.cbm = c, !.prefix_file = p, !.to = t,
                 !.inplace = i] :
     d \in {0, 40, 121}, n \in {0, 1, 2, 3, 9, 128, 129, 130, 131}, c \in BOOLEAN,
     p \in {NotGiven, 0, 3, 90}, t \in {NotGiven, 45, 128}, i \in BOOLEAN}

Warned ==
  {[Plain EXCEPT !.addr = d, !.relocate_packed = r, !.exit_on_warn = w, !.inplace = i,
                 !.size = n] :
     d \in {0, 40, 96, 104, 112}, r \in {NotGiven, 0, 100, 104, 128}, w \in BOOLEAN,
     i \in BOOLEAN, n \in {6, 16}}

SelfExtracting ==
  {[Plain EXCEPT !.sfx = TRUE, !.addr = d, !.size = n, !.small = s, !.relocate_sfx = r,
                 !.from = f] :
     d \in {4, 15, 16, 60, 108, 112, 116}, n \in {5, 14, 18, 50}, s \in BOOLEAN,
     r \in {NotGiven, 15, 16, 60, 76, 78, 80, 92, 96, 101, 128}, f \in {NotGiven, 61}}

Excluded ==
  {[Plain EXCEPT !.sfx = TRUE, !.verify = v, !.prefix_file = p, !.prefix_from = q] :
     v \in BOOLEAN, p \in {NotGiven, 3}, q \in {NotGiven, 0}}

MCRequests == Ranges \cup Sizes \cup Warned \cup SelfExtracting \cup Excluded

Literals(read, n) == [literal |-> TRUE, read |-> read, length |-> n]
Match(read, n)    == [literal |-> FALSE, read |-> read, length |-> n]

MCStreams ==
  {[commands |-> <<Literals(1, n)>>, end |-> e] : n \in 1 .. 127, e \in {1, 2}}
    \cup {[commands |-> <<Literals(1, n), Match(r, m)>>, end |-> 2] :
            n \in {1, 9}, r \in {1, 2}, m \in {2, 3, 4, 7, 11, 15, 126}}
    \cup {[commands |-> <<Literals(1, n), Match(2, m), Literals(0, k)>>, end |-> 1] :
            n \in {1, 2}, m \in {1, 2, 9}, k \in {1, 5}}
    \cup {[commands |-> <<Literals(1, n), Match(2, 9), Match(1, l)>>, end |-> 2] :
            n \in {1, 3}, l \in {2, 4}}

MCBootSize(small) == IF small THEN 3 ELSE 4
MCCodeSize(small) == IF small THEN 4 ELSE 5
=============================================================================
