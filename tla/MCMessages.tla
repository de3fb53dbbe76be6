----------------------------- MODULE MCMessages -----------------------------
(* Model-checking instances of Messages and Codec.                         *)
EXTENDS Messages

CONSTANTS null, raised

-----------------------------------------------------------------------------
(* Values that are only sent.                                              *)

Numbers == {Num(n) : n \in {0, 1, 127, 128, 255, 256, 32767, -1, -32768}}
Text(n) == Str([i \in 1..n |-> 65])
Texts == {Text(n) : n \in {0, 1, 2, 127, 128, 130}}
Blob(n) == Bytes([i \in 1..n |-> 200 + (i % 2)])
Blobs == {Blob(n) : n \in {0, 1, 2, 127, 128, 130}}

\* Up to three elements.
Lists(S) == {List(s) : s \in UNION {[1..n -> S] : n \in 0..3}}

ShortTexts == {Text(0), Text(1), Text(130)}

Thing == Class([id |-> IntType, name |-> StrType, drives |-> DictOf(BoolType)])
AThing(id, name, drives) ==
    Object(Thing, [id |-> id, name |-> name, drives |-> drives])
SomeKeys == {"id", "ids", "name", "path", "size", "data", "model", "state", "drives"}
SomeDrives ==
    {Dict(<<>>), Dict("id" :> Null),
     Dict("id" :> Bool(TRUE) @@ "name" :> Bool(FALSE)),
     Dict("id" :> Null @@ "name" :> Bool(TRUE) @@ "data" :> Null),
     Dict([n \in SomeKeys |-> IF n \in {"id", "size"} THEN Null ELSE Bool(n = "path")])}
Things == {AThing(id, name, d) : id \in {Num(0), Num(300), Null},
                                 name \in {Text(1), Text(130), Null},
                                 d \in SomeDrives \cup {Null}}
ThreeThings == {AThing(Num(300), Text(1), Dict("id" :> Null)),
                AThing(Null, Text(2), Null),
                AThing(Num(5), Text(1), Dict("name" :> Bool(TRUE)))}

\* An enumeration without numbers, of which the messages have none.
Sort == EnumType({"id", "name"})
Listing == Class([data |-> ListOf(Thing), state |-> Sort])

ManySamples ==
    ({IntType} \X Numbers)
        \cup ({MemberType(2)} \X {Num(n) : n \in 0..3})
        \cup ({StrType} \X Texts)
        \cup ({BytesType} \X Blobs)
        \cup ({Sort} \X {Enum("id"), Enum("name"), Enum("data")})
        \cup ({ListOf(StrType)} \X Lists(ShortTexts))
        \cup ({ListOf(StrType)} \X Lists({Text(1), Null}))
        \cup ({ListOf(BoolType)} \X Lists({Bool(TRUE), Bool(FALSE)}))
        \cup ({ListOf(ListOf(IntType))}
                  \X {List(<<l, m>>) : l, m \in Lists({Num(7)})})
        \cup ({Thing} \X Things)
        \cup ({Listing} \X {Object(Listing, [data |-> l, state |-> Enum("id")]) :
                                 l \in Lists(ThreeThings)})

-----------------------------------------------------------------------------
(* Arguments and replies.                                                  *)

RECURSIVE Small(_), Large(_)

Small(t) ==
    CASE t.k \in {"int", "member"} -> Num(IF t.k = "int" THEN 1 ELSE 0)
      [] t.k = "bool" -> Bool(FALSE)
      [] t.k = "str" -> Text(1)
      [] t.k = "bytes" -> Blob(0)
      [] t.k = "enum" -> Enum("id")
      [] t.k = "list" -> List(<<>>)
      [] t.k = "dict" -> Dict(<<>>)
      [] t.k = "struct" -> Object(t, [n \in DOMAIN t.fields |-> Small(t.fields[n])])

\* Lists of two, and every other field of an object left out.
Large(t) ==
    CASE t.k = "int" -> Num(300)
      [] t.k = "member" -> Num(t.max)
      [] t.k = "bool" -> Bool(TRUE)
      [] t.k = "str" -> Text(2)
      [] t.k = "bytes" -> Blob(130)
      [] t.k = "enum" -> Enum("name")
      [] t.k = "list" -> List(<<Small(t.of), Large(t.of)>>)
      [] t.k = "dict" -> Dict("id" :> Large(t.of) @@ "name" :> Null)
      [] t.k = "struct" ->
            Object(t, [n \in DOMAIN t.fields |->
                          IF NameByte(n) % 2 = 0 THEN Large(t.fields[n]) ELSE Null])

\* With a member that the client does not know.
Newer(t) ==
    CASE t.k = "member" -> {Num(t.max + 1)}
      [] t = ListOf(VirtualMachineInformation) ->
            {List(<<[Small(t.of) EXCEPT !.v.state = Num(9)], Large(t.of)>>)}
      [] OTHER -> {}

Tried(t) == {Null, Small(t), Large(t)} \cup Newer(t)

-----------------------------------------------------------------------------
(* Everything that is sent, and its parts.                                 *)

PartsOf(t, val) ==
    CASE t.k \in {"list", "dict"} -> {<<t.of, x>> : x \in ToSet(val.v)}
      [] t.k = "struct" ->
            {<<IF key \in DOMAIN t.fields THEN t.fields[key] ELSE BoolType,
               val.v[key]>> : key \in DOMAIN val.v \cap val.declares}
      [] t.k = "enum" -> {<<DictOf(BoolType), Dict(<<>>)>>}
      [] OTHER -> {}

Parts(pairs) ==
    {p \in UNION {PartsOf(p[1], p[2]) : p \in pairs} : p[2] # Null}

Nested ==
    FoldLeft(LAMBDA typed, n : typed @@ (Depth - n :> Parts(typed[Depth - n + 1])),
             Depth :> ManySamples \cup Sent,
             [n \in 1..Depth |-> n])

\* TLC evaluates a definition once, but what stands for a constant each time.
AllTyped == Nested

\* The keys of all messages, and of what a newer server sends.
AllNames ==
    <<"AdditionalArguments", "Architecture", "Backend", "BackgroundColor",
      "BalloonDevice", "BridgeInterface", "CPU", "CPUCount", "CPUFlagsAdd",
      "CPUFlagsRemove", "ClipboardSharing", "ConfigurationVersion",
      "CursorBlink", "DebugLog", "DirectoryShareMode",
      "DirectoryShareReadOnly", "Display", "DownscalingFilter", "Drive",
      "DynamicResolution", "Font", "FontSize", "ForceMulticore",
      "ForegroundColor", "GuestAddress", "GuestPort", "Hardware",
      "HostAddress", "HostNetUuid", "HostPort", "Hypervisor", "Icon",
      "IconCustom", "Identifier", "ImageName", "ImageType", "Information",
      "Input", "Interface", "InterfaceVersion", "IsolateFromHost",
      "JITCacheSize", "MacAddress", "MachinePropertyOverride",
      "MaximumUsbShare", "MemorySize", "Mode", "Name", "NativeResolution",
      "Network", "Notes", "PS2Controller", "PortForward", "Protocol", "QEMU",
      "RNGDevice", "RTCLocalTime", "ReadOnly", "RemoteConnectionAllowed",
      "ResizeCommand", "Serial", "Sharing", "Sound", "System", "TPMDevice",
      "TSO", "Target", "TcpHostAddress", "TcpPort", "Terminal", "Theme",
      "UEFIBoot", "UUID", "UpscalingFilter", "UsbBusSupport", "UsbSharing",
      "VgaRamMib", "VlanDhcpDomain", "VlanDhcpEndAddress",
      "VlanDhcpStartAddress", "VlanDnsSearchDomain", "VlanDnsServerAddress",
      "VlanDnsServerAddressIPv6", "VlanGuestAddress", "VlanGuestAddressIPv6",
      "VlanHostAddress", "VlanHostAddressIPv6", "WaitForConnection",
      "backend", "capabilities", "configuration", "data", "drives",
      "errorMessage", "id", "ids", "informations", "isAuthenticated",
      "isShortcut", "isSuspended", "isTabletMode", "isTakeoverAllowed",
      "lastModified", "method", "model", "mountedDrives", "name", "new",
      "offset", "options", "password", "path", "relativePathComponents",
      "serverInfo", "size", "spiceHostExternal", "spicePassword",
      "spicePortExternal", "spicePortInternal", "spicePublicKey", "state",
      "version">>
=============================================================================
