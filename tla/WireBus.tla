------------------------------- MODULE WireBus -------------------------------
(***************************************************************************)
(* Nets and the I2C and serial buses, twice: as the simulation in the      *)
(* browser builds them (DisjointSet of runtime.ts, protocolRuntime.ts) and *)
(* as the backend does (Netlist and the Wire and Serial calls of           *)
(* behavioral.py).  A project is wired, switched on, and its program's     *)
(* calls are then given to both.  Firmware that was tried in one must      *)
(* behave the same in the other.                                           *)
(*                                                                         *)
(* The device is the one that both execute, a real-time clock: register 0  *)
(* is the running second, the others are constants.                        *)
(***************************************************************************)
EXTENDS Naturals, Sequences, FiniteSets

CONSTANTS
    BusLines,   \* the pairs of endpoints that must share a net: data and clock,
    Supply,     \* power and ground
    Wires,      \* pairs of endpoints that may be connected
    Inputs,     \* sequences of bytes that the controls put on the board's serial line
    Registers,  \* size of the register file (256 in the code)
    MaxBytes, MaxLength, MaxSeconds

VARIABLES
    wires, parent,          \* connections drawn, and the forest of the disjoint sets
    seconds, browser, backend,
    program                 \* "open", "requested" or "other", or "apart" once it used
                            \* something that the two interpret apart

busVars == <<wires, parent, seconds, browser, backend, program>>

Endpoints == UNION {{l[1], l[2]} : l \in BusLines \cup Supply} \cup UNION {{w[1], w[2]} : w \in Wires}
Off == [on |-> FALSE, started |-> "no", bytes |-> <<>>, queue |-> <<>>, pointer |-> 0, received |-> <<>>,
        told |-> <<>>, warned |-> {}]

-----------------------------------------------------------------------------
RECURSIVE Find(_, _)
Find(p, e) == IF p[e] = e THEN e ELSE Find(p, p[e])

\* find also makes every endpoint on its way a child of the root
RECURSIVE Above(_, _)
Above(p, e) == {e} \cup IF p[e] = e THEN {} ELSE Above(p, p[e])
Compress(p, e) == [x \in Endpoints |-> IF x \in Above(p, e) THEN Find(p, e) ELSE p[x]]

Union_Leaf(p, a, b) == [Compress(p, b) EXCEPT ![a] = Find(p, b)]
Union(p, a, b) == LET q == Compress(Compress(p, b), a) IN [q EXCEPT ![Find(p, a)] = Find(p, b)]

BusInit ==
    /\ wires = {} /\ parent = [e \in Endpoints |-> e]
    /\ seconds = 0 /\ browser = Off /\ backend = Off /\ program = "other"

Connect(w) ==
    /\ ~browser.on
    /\ w \notin wires
    /\ wires' = wires \cup {w}
    /\ parent' = Union(parent, w[1], w[2])
    /\ UNCHANGED <<seconds, browser, backend, program>>

\* A run begins with empty buses.  The browser keeps the last serial input of a
\* board, the backend queues all of them.
PowerOn(inputs) ==
    /\ ~browser.on
    /\ browser' = [Off EXCEPT !.on = TRUE, !.received = IF inputs = <<>> THEN <<>> ELSE <<inputs[Len(inputs)]>>]
    /\ backend' = [Off EXCEPT !.on = TRUE, !.received = inputs]
    /\ program' = IF Len(inputs) <= 1 THEN "other" ELSE "apart"
    /\ UNCHANGED <<wires, parent, seconds>>

-----------------------------------------------------------------------------
\* The device answers when each of its lines is on the controller's net.
Joined(lines) == \A l \in lines : Find(parent, l[1]) = Find(parent, l[2])
Present == Joined(BusLines \cup Supply)
Acknowledged(address) == address = "rtc" /\ Present
Unpowered(address) == address = "rtc" /\ Joined(BusLines) /\ ~Joined(Supply)

\* The browser masks a register's number, the backend compares it unmasked
\* before it falls back to the register file, which nobody has written.
Value(register) == IF register = 0 THEN seconds ELSE 10 + register
ReadRegister(register) == Value(register % Registers)
BackendRegister(register) == IF register < Registers THEN Value(register) ELSE 0

\* what a call leaves in the trace
Told(bus, what) == [bus EXCEPT !.told = what]

\* a warning is its code, and is given once
Warn(bus, code) == [bus EXCEPT !.warned = @ \cup {code}]
WarnIf(condition, bus, code) == IF condition THEN Warn(bus, code) ELSE bus

I2cBeginTransmission(bus, address) ==
    Told([bus EXCEPT !.started = address, !.bytes = <<>>, !.queue = <<>>], <<"begin">>)

\* Only the backend warns when it finds the device on the bus without supply.
I2cDevice_AnySupply(bus, address) == WarnIf(address = "rtc" /\ Joined(BusLines), bus, "unpowered")
I2cDevice(bus, address) == WarnIf(Unpowered(address), bus, "unpowered")
BackendBeginTransmission(bus, address) == I2cBeginTransmission(I2cDevice(bus, address), address)

Write(bus, byte) ==
    IF bus.started = "no" THEN Told(Warn(bus, "write without start"), <<"nothing">>)
    ELSE Told([bus EXCEPT !.bytes = Append(@, byte)], <<"write">>)

\* The first byte sets the register pointer; the clock ignores writes.
EndTransmission(bus) ==
    IF bus.started = "no" THEN Told(bus, <<"nothing">>)
    ELSE LET ack == Acknowledged(bus.started)
             sent == WarnIf(ack /\ Len(bus.bytes) > 1, bus, "register write")
         IN  Told([WarnIf(~ack, sent, "not found") EXCEPT
                       !.pointer = IF ack /\ bus.bytes # <<>> THEN Head(bus.bytes) ELSE @],
                  <<"written", bus.started, bus.bytes, ack>>)

\* The pointer moves on by what was read.  The browser keeps the bytes of the
\* transaction that is open, the backend replaces it.
RequestFrom(bus, address, length, Register(_), kept) ==
    LET ack == Acknowledged(address)
        queue == IF ack THEN [i \in 1..length |-> Register(bus.pointer + i - 1)] ELSE <<>>
    IN  Told([WarnIf(~ack, bus, "not found") EXCEPT
                  !.started = address, !.bytes = kept, !.queue = queue,
                  !.pointer = IF ack THEN (bus.pointer + Len(queue)) % Registers ELSE @],
             <<"read", address, IF ack THEN bus.pointer ELSE 0, queue, ack>>)
I2cRequestFrom(bus, address, length) == RequestFrom(bus, address, length, ReadRegister, bus.bytes)
BackendRequestFrom_NoAdvance(bus, address, length) ==
    [RequestFrom(bus, address, length, BackendRegister, <<>>) EXCEPT !.pointer = bus.pointer]
BackendRequestFrom_Quiet(bus, address, length) ==
    [RequestFrom(I2cDevice(bus, address), address, length, BackendRegister, <<>>) EXCEPT !.warned = I2cDevice(bus, address).warned]
BackendRequestFrom(bus, address, length) ==
    RequestFrom(I2cDevice(bus, address), address, length, BackendRegister, <<>>)

Read(bus) ==
    IF bus.queue = <<>> THEN Told(Warn(bus, "read without data"), <<"byte", 0>>)
    ELSE Told([bus EXCEPT !.queue = Tail(@)], <<"byte", Head(bus.queue)>>)

SerialRead(bus) ==
    IF bus.received = <<>> THEN Told(bus, <<"no byte">>)
    ELSE Told([bus EXCEPT !.received = Tail(@)], <<"rx", Head(bus.received)>>)

-----------------------------------------------------------------------------
\* the same call to both
Both(Call(_)) ==
    /\ browser.on
    /\ browser' = Call(browser) /\ backend' = Call(backend)
    /\ UNCHANGED <<wires, parent, seconds>>

Becomes(what) == program' = IF program = "apart" THEN program ELSE what

CallBegin(address) ==
    /\ browser.on
    /\ browser' = I2cBeginTransmission(browser, address) /\ backend' = BackendBeginTransmission(backend, address)
    /\ Becomes("open")
    /\ UNCHANGED <<wires, parent, seconds>>
CallRead == Both(Read) /\ UNCHANGED program
CallSerialRead == Both(SerialRead) /\ UNCHANGED program

\* Sending again after a read, without a new beginning, is interpreted apart:
\* only the browser still has the bytes of the last transaction.
Sending == Becomes(IF program = "requested" THEN "apart" ELSE program)
CallWrite(byte) == Len(browser.bytes) < MaxBytes /\ Both(LAMBDA bus : Write(bus, byte)) /\ Sending

\* As a statement both perform the call.  Inside an expression, such as an
\* assignment of its result, only the browser does.
CallEnd(statement) ==
    /\ browser.on
    /\ browser' = EndTransmission(browser)
    /\ backend' = IF statement THEN EndTransmission(backend) ELSE Told(backend, <<"nothing">>)
    /\ IF statement THEN Sending ELSE Becomes("apart")
    /\ UNCHANGED <<wires, parent, seconds>>

\* A read across the end of the register file is interpreted apart, too.
CallRequestFrom(address, length, statement) ==
    /\ browser.on
    /\ browser' = I2cRequestFrom(browser, address, length)
    /\ backend' = IF statement THEN BackendRequestFrom(backend, address, length) ELSE Told(backend, <<"nothing">>)
    /\ Becomes(IF statement /\ browser.pointer + length <= Registers THEN "requested" ELSE "apart")
    /\ UNCHANGED <<wires, parent, seconds>>

Delay ==
    /\ browser.on /\ seconds < MaxSeconds
    /\ seconds' = seconds + 1
    /\ UNCHANGED <<wires, parent, browser, backend, program>>

\* a program is followed until the two interpret it apart
Calls ==
    \/ \E address \in {"rtc", "nobody"} : CallBegin(address)
    \/ \E byte \in 0..(Registers - 1) : CallWrite(byte)
    \/ \E statement \in BOOLEAN : CallEnd(statement)
    \/ \E address \in {"rtc", "nobody"}, length \in 0..MaxLength, statement \in BOOLEAN :
          CallRequestFrom(address, length, statement)
    \/ CallRead
    \/ CallSerialRead
    \/ Delay

BusNext ==
    \/ \E w \in Wires : Connect(w)
    \/ \E inputs \in Inputs : PowerOn(inputs)
    \/ program # "apart" /\ Calls

-----------------------------------------------------------------------------
RECURSIVE Reached(_)
Reached(es) ==
    LET more == es \cup {e \in Endpoints : \E x \in es : <<x, e>> \in wires \/ <<e, x>> \in wires}
    IN  IF more = es THEN es ELSE Reached(more)

\* Two endpoints are on one net exactly when a chain of wires joins them, in
\* whatever order the connections were added.
NetsAreExact ==
    \A a, b \in Endpoints : (Find(parent, a) = Find(parent, b)) <=> (b \in Reached({a}))

\* The two simulations leave the same trace of a program, call by call, as long
\* as it sends nothing after a read without a new beginning, uses no call's
\* result, does not read past the last register and has one serial input.  They
\* give warnings of the same codes, but for the one of a device on the bus
\* without supply, which only the backend gives, and only of such a device.
SimulationsAgree ==
    program # "apart" =>
        /\ browser.told = backend.told
        /\ browser.warned = backend.warned \ {"unpowered"}
        /\ "unpowered" \in backend.warned => Joined(BusLines) /\ ~Joined(Supply)
=============================================================================
