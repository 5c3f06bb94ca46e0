------------------------------ MODULE Messages ------------------------------
(***************************************************************************)
(* The message formats (messages.c, messages.h) and their unpacking        *)
(* (handlers.c).  A message is built in a buffer by appending structures,  *)
(* each at the current header.length, and unpacked by walking the same     *)
(* offsets.  A buffer is modelled by its header fields and the structure   *)
(* at each offset; the bytes inside a structure are abstracted to one      *)
(* value and to whether its multi-byte field is in network order.          *)
(***************************************************************************)
EXTENDS Integers, Sequences, SequencesExt

MAX_LEN == 2048     \* every buffer and every cell of the control plane
P4_MAX_NUMBER_OF_FIELD_MATCHES     == 10
P4_MAX_NUMBER_OF_ACTION_PARAMETERS == 10
P4_MAX_FIELD_VALUE_LENGTH          == 32

(* sizeof, with the padding of a uint32_t to 4 and of a uint16_t to 2 bytes *)
MatchKinds == {"exact", "ternary", "lpm", "range", "valid"}

SizeOf ==
    [header |-> 8, add_table_entry |-> 140, set_default_action |-> 268, digest |-> 140,
     lpm |-> 388, exact |-> 388, range |-> 646, ternary |-> 646, valid |-> 390,
     action |-> 130, parameter |-> 260, digest_field |-> 164]

(* the action inside struct p4_set_default_action, after header and name *)
DefaultActionAt == 136

Structure(kind, value) == [kind |-> kind, value |-> value, net |-> FALSE, params |-> 0]
Garbage == Structure("garbage", "garbage")
At(b, offset) == IF offset \in DOMAIN b.at THEN b.at[offset] ELSE Garbage
-----------------------------------------------------------------------------
(* Building.  fits turns FALSE when a function returns 0 for want of room:  *)
(* no caller looks at the result, so that the next line writes to null.     *)
create_p4_header(max) ==
    [type |-> "HELLO", length |-> 8, net |-> FALSE, name |-> "", count |-> 0,
     at |-> << >>, fits |-> 8 <= max]

Create(b, type, size, name, max) ==
    IF size >= max THEN [b EXCEPT !.fits = FALSE]
    ELSE [b EXCEPT !.type = type, !.length = size, !.name = name, !.count = 0]

create_p4_add_table_entry(b, name, max) ==
    Create(b, "ADD_TABLE_ENTRY", SizeOf.add_table_entry, name, max)

create_p4_digest(b, name, max) == Create(b, "DIGEST", SizeOf.digest, name, max)

create_p4_set_default_action(b, name, action, max) ==
    [Create(b, "SET_DEFAULT_ACTION", SizeOf.set_default_action, name, max)
        EXCEPT !.at = [o \in {DefaultActionAt} |-> Structure("action", action)]]

Append2(b, kind, value, max) ==
    IF b.length + SizeOf[kind] > max THEN [b EXCEPT !.fits = FALSE]
    ELSE [b EXCEPT !.at = [o \in DOMAIN @ \cup {b.length} |->
                              IF o = b.length THEN Structure(kind, value) ELSE @[o]],
                   !.length = @ + SizeOf[kind]]

(* read_size and list_size count what was appended *)
Counted(b, kind, value, max) ==
    LET c == Append2(b, kind, value, max)
    IN  IF c.fits THEN [c EXCEPT !.count = @ + 1] ELSE c

add_p4_field_match_lpm(b, value, max)     == Counted(b, "lpm", value, max)
add_p4_field_match_exact(b, value, max)   == Counted(b, "exact", value, max)
add_p4_field_match_range(b, value, max)   == Counted(b, "range", value, max)
add_p4_field_match_valid(b, value, max)   == Counted(b, "valid", value, max)
add_p4_field_match_ternary(b, value, max) == Counted(b, "ternary", value, max)
add_p4_digest_field(b, value, max)        == Counted(b, "digest_field", value, max)
add_p4_action(b, name, max)               == Append2(b, "action", name, max)

(* Mutant: the parameters of an action are not counted. *)
ParameterNotCounted(b, a, value, max) == Append2(b, "parameter", value, max)

(* a is the offset of the action the parameter belongs to *)
add_p4_action_parameter(b, a, value, max) ==
    LET c == Append2(b, "parameter", value, max)
    IN  IF c.fits THEN [c EXCEPT !.at[a].params = @ + 1] ELSE c
-----------------------------------------------------------------------------
(* Byte order.  Matches, parameters and digest fields have a length (or a   *)
(* prefix length), the header a length and an id.                           *)
netconv_p4_header(b) == [b EXCEPT !.net = ~@]

netconv_p4_field_match_lpm(m)     == [m EXCEPT !.net = ~@]
netconv_p4_field_match_exact(m)   == [m EXCEPT !.net = ~@]
netconv_p4_field_match_range(m)   == [m EXCEPT !.net = ~@]
netconv_p4_field_match_ternary(m) == [m EXCEPT !.net = ~@]
netconv_p4_field_match_valid(m)   == [m EXCEPT !.net = ~@]
netconv_p4_digest_field(m)        == [m EXCEPT !.net = ~@]
netconv_p4_action_parameter(m)    == [m EXCEPT !.net = ~@]
netconv_p4_action(m)              == m

netconv_p4_field_match_complex(m) ==
    CASE m.kind = "exact"   -> netconv_p4_field_match_exact(m)
      [] m.kind = "ternary" -> netconv_p4_field_match_ternary(m)
      [] m.kind = "lpm"     -> netconv_p4_field_match_lpm(m)
      [] m.kind = "range"   -> netconv_p4_field_match_range(m)
      [] m.kind = "valid"   -> netconv_p4_field_match_valid(m)
      [] OTHER              -> m

MatchSize(m) == IF m.kind \in MatchKinds THEN SizeOf[m.kind] ELSE 0

netconv(m) ==
    CASE m.kind = "parameter"    -> netconv_p4_action_parameter(m)
      [] m.kind = "action"       -> netconv_p4_action(m)
      [] m.kind = "digest_field" -> netconv_p4_digest_field(m)
      [] OTHER                   -> netconv_p4_field_match_complex(m)

(* what every sender does before it sends: all parts, one after the other *)
Convert(b) == [netconv_p4_header(b) EXCEPT !.at = [o \in DOMAIN @ |-> netconv(@[o])]]
-----------------------------------------------------------------------------
(* A message as its sender means it.                                        *)
Entry(table, reads, action, params) ==
    [type |-> "ADD_TABLE_ENTRY", table |-> table, reads |-> reads,
     action |-> action, params |-> params]
DefaultAction(table, action, params) ==
    [type |-> "SET_DEFAULT_ACTION", table |-> table, reads |-> << >>,
     action |-> action, params |-> params]
Nothing(type) ==
    [type |-> type, table |-> "", reads |-> << >>, action |-> "", params |-> << >>]
Initialized == Nothing("CTRL_INITIALIZED")

Exact(value) == [kind |-> "exact", value |-> value]
Lpm(value)   == [kind |-> "lpm", value |-> value]

add_p4_field_match(b, m, max) ==
    CASE m.kind = "exact"   -> add_p4_field_match_exact(b, m.value, max)
      [] m.kind = "ternary" -> add_p4_field_match_ternary(b, m.value, max)
      [] m.kind = "lpm"     -> add_p4_field_match_lpm(b, m.value, max)
      [] m.kind = "range"   -> add_p4_field_match_range(b, m.value, max)
      [] m.kind = "valid"   -> add_p4_field_match_valid(b, m.value, max)

AddMatches(b, reads) ==
    FoldLeft(LAMBDA c, f : add_p4_field_match(c, f, MAX_LEN), b, reads)

AddParameters(b, a, params) ==
    FoldLeft(LAMBDA c, p : add_p4_action_parameter(c, a, p, MAX_LEN), b, params)

BuildEntry(m) ==
    LET e == create_p4_add_table_entry(create_p4_header(MAX_LEN), m.table, MAX_LEN)
        r == AddMatches(e, m.reads)
    IN  AddParameters(add_p4_action(r, m.action, MAX_LEN), r.length, m.params)

BuildDefault(m) ==
    LET d == create_p4_set_default_action(create_p4_header(MAX_LEN), m.table,
                                          m.action, MAX_LEN)
    IN  AddParameters(d, DefaultActionAt, m.params)

Build(m) ==
    Convert(CASE m.type = "ADD_TABLE_ENTRY"    -> BuildEntry(m)
              [] m.type = "SET_DEFAULT_ACTION" -> BuildDefault(m)
              [] m.type = "CTRL_INITIALIZED"   ->
                    [create_p4_header(SizeOf.header) EXCEPT !.type = m.type])

(* A field of a digest: a value of so many bytes, and the length its sender *)
(* passes, which add_digest_field takes to be in bits.  Bytes that it does  *)
(* not copy keep what the cell held before, and the value becomes Stale.    *)
Stale == "stale"
BytesOf(bits) == (bits - 1) \div 8 + 1

add_digest_field(f) ==
    IF BytesOf(f.length) \in f.bytes .. P4_MAX_FIELD_VALUE_LENGTH THEN f.value ELSE Stale

BuildDigest(d) ==
    Convert(FoldLeft(LAMBDA c, f : add_p4_digest_field(c, add_digest_field(f), MAX_LEN),
                     create_p4_digest(create_p4_header(MAX_LEN), d.name, MAX_LEN),
                     d.fields))
-----------------------------------------------------------------------------
(* Unpacking.                                                               *)
Rejected == Nothing("REJECTED")

(* a structure that is not in host order when it is used has a wrong length *)
Value(m) == IF m.net THEN "swapped" ELSE m.value

Parameters(b, first, n) ==
    [i \in 1 .. n |->
        Value(netconv_p4_action_parameter(At(b, first + (i - 1) * SizeOf.parameter)))]

handle_p4_set_default_action(b) ==
    LET a == At(b, DefaultActionAt)
    IN  IF a.params > P4_MAX_NUMBER_OF_ACTION_PARAMETERS THEN Rejected
        ELSE DefaultAction(b.name, a.value,
                           Parameters(b, SizeOf.set_default_action, a.params))

(* where the i-th match starts *)
MatchOffset(b) ==
    LET off[i \in 1 .. b.count + 1] ==
            IF i = 1 THEN SizeOf.add_table_entry
            ELSE LET before == off[i - 1] IN before + MatchSize(At(b, before))
    IN  off

handle_p4_add_table_entry(b) ==
    LET off == MatchOffset(b)
        end == off[b.count + 1]
        a   == At(b, end)
        Match(i) == netconv_p4_field_match_complex(At(b, off[i]))
    IN  IF \/ b.count > P4_MAX_NUMBER_OF_FIELD_MATCHES
           \/ a.params > P4_MAX_NUMBER_OF_ACTION_PARAMETERS
        THEN Rejected
        ELSE Entry(b.name,
                   [i \in 1 .. b.count |-> [kind |-> Match(i).kind, value |-> Value(Match(i))]],
                   a.value, Parameters(b, end + SizeOf.action, a.params))

handle_p4_ctrl_initialized(b) == Initialized

(* The message the callback is given; length is what was read.  For a type  *)
(* it does not know the callback gets an uninitialised one (CtrlBackend).   *)
handle_p4_msg(b, length) ==
    IF length < SizeOf.header \/ ~b.net \/ b.length > length THEN Rejected
    ELSE CASE b.type = "SET_DEFAULT_ACTION" -> handle_p4_set_default_action(b)
           [] b.type = "ADD_TABLE_ENTRY"    -> handle_p4_add_table_entry(b)
           [] b.type = "CTRL_INITIALIZED"   -> handle_p4_ctrl_initialized(b)
           [] OTHER                         -> Nothing("UNINITIALISED")

(* unpack_p4_digest_field: the controller programs step over the fields *)
unpack_p4_digest_field(b, i) ==
    Value(netconv_p4_digest_field(At(b, SizeOf.digest + (i - 1) * SizeOf.digest_field)))
=============================================================================
