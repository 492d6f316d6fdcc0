----------------------------- MODULE MCListing -----------------------------
(***************************************************************************)
(* An instance of Listing for TLC: which queries the clients send.         *)
(***************************************************************************)
EXTENDS Listing, TLC

Plain == [resource |-> "users", page |-> 0, limit |-> 0, sort |-> "",
          direction |-> "asc", filter |-> << >>]

On(key, raw) == [Plain EXCEPT !.filter = key :> raw]

Walks == {[Plain EXCEPT !.direction = d, !.limit = n] : d \in {"asc", "up"}, n \in {0, 1}}

(* What the clocks show is a tick of one of two days, two ticks each.      *)
Ranges == {On("createdAt", <<c>>) : c \in {1, 2}}
          \cup {On("createdAt", <<c, Blank, d>>) : c \in {0, 2}, d \in {2, 3}}

(* Dropped by the pipe, ignored as empty, or within the enum.              *)
Harmless == {On("password", Repeated), On("updatedAt", << >>),
             On("status", <<Known>>)}

Doubtful ==
    {[On(key, raw) EXCEPT !.resource = r] :
        r \in DOMAIN Sortable, key \in {"status", "group", "id", "password"},
        raw \in {<<Blank>>, <<Junk>>}}
    \cup {On("updatedAt", raw) : raw \in {<<Blank>>, <<Blank, Blank>>, <<Junk>>,
                                          <<0, Junk>>, <<2, 1>>, <<0, 1, 2>>}}
    \cup {[Plain EXCEPT !.resource = r, !.sort = f] :
             r \in DOMAIN Sortable, f \in {"status", "group", "password"}}
    \cup {[Plain EXCEPT !.page = n] : n \in {-1, Odd}}
    \cup {[Plain EXCEPT !.limit = Odd]}

AllQueries == Walks \cup Ranges \cup Harmless \cup Doubtful

AheadAndBehind == {-1, 1}

Interchangeable == Permutations(Rows)

=============================================================================
