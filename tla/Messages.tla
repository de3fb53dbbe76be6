------------------------------ MODULE Messages ------------------------------
(***************************************************************************)
(* Remote operations and the requests of the server, from the arguments at *)
(* one end to the arguments at the other and back                          *)
(* (UTMRemoteClient.Remote and UTMRemoteClient.Local in                    *)
(* src/utmremote/utmremoteclient.py, Message.send in                       *)
(* src/utmremote/swiftconnect.py).  What either end sends is encoded and   *)
(* decoded as in Codec, by the classes of Declarations.                    *)
(*                                                                         *)
(* A talk is a value that is only sent, a remote operation, or a request   *)
(* of the server.  The server declares the messages as the client does,    *)
(* but a newer one may send a field, a member of an enumeration or a       *)
(* message that the client does not know.                                  *)
(***************************************************************************)
EXTENDS Codec, Declarations

CONSTANTS ValuesOf(_),  \* the values tried for a type
          New           \* a field, or a message, that only the server knows

VARIABLES
    talk,     \* what it is about: kind, name and the arguments given
    leg,      \* "there", "back" or "over"
    seen,     \* what the other end has decoded
    outcome   \* what the caller gets: values, Raised, or Null for not yet

allVars == <<sample, peerSends, encoding, result, talk, leg, seen, outcome>>

-----------------------------------------------------------------------------
(* The client's code.                                                      *)

\* Mutant: the keyword is called like the parameter of the operation.
SendsWithTablet ==
    [changePointerTypeVirtualMachine |-> {"id", "tablet"}] ++
    [m \in DOMAIN SM |-> DOMAIN SM[m].request.fields]

\* The keywords that the operation of each message gives to its Request:
\* reorderVirtualMachines gives toOffset for what is declared as offset.
Sends ==
    [serverHandshake |-> {"version", "password"},
     listVirtualMachines |-> {},
     reorderVirtualMachines |-> {"ids", "toOffset"},
     getVirtualMachineInformation |-> {"ids"},
     getQEMUConfiguration |-> {"id"},
     getPackageSize |-> {"id"},
     getPackageFile |-> {"id", "relativePathComponents", "lastModified"},
     sendPackageFile |-> {"id", "relativePathComponents", "lastModified", "data"},
     deletePackageFile |-> {"id", "relativePathComponents"},
     mountGuestToolsOnVirtualMachine |-> {"id"},
     startVirtualMachine |-> {"id", "options"},
     stopVirtualMachine |-> {"id", "method"},
     restartVirtualMachine |-> {"id"},
     pauseVirtualMachine |-> {"id"},
     resumeVirtualMachine |-> {"id"},
     saveSnapshotVirtualMachine |-> {"id", "name"},
     deleteSnapshotVirtualMachine |-> {"id", "name"},
     restoreSnapshotVirtualMachine |-> {"id", "name"},
     changePointerTypeVirtualMachine |-> {"id", "isTabletMode"}]

\* The fields of the Reply that it returns.
Returns ==
    [serverHandshake |-> <<"isAuthenticated", "model">>,
     listVirtualMachines |-> <<"ids">>,
     getVirtualMachineInformation |-> <<"informations">>,
     getQEMUConfiguration |-> <<"configuration">>,
     getPackageSize |-> <<"size">>,
     getPackageFile |-> <<"data", "lastModified">>,
     startVirtualMachine |-> <<"serverInfo">>]
    ++ [m \in DOMAIN SM |-> <<>>]

\* Mutant: the transition is passed on without the last of its arguments.
PassesWithoutTakeover ==
    [virtualMachineDidTransition |-> <<"id", "state">>] ++
    [m \in DOMAIN CM |-> SelectSeq(SetToSeq(DOMAIN CM[m].request.fields),
                                   LAMBDA f : f # "version")]

\* The fields that Local passes on to the client.
Passes ==
    [clientHandshake |-> <<>>,
     listHasChanged |-> <<"ids">>,
     qemuConfigurationHasChanged |-> <<"id", "configuration">>,
     mountedDrivesHasChanged |-> <<"id", "mountedDrives">>,
     virtualMachineDidTransition |-> <<"id", "state", "isTakeoverAllowed">>,
     virtualMachineDidError |-> <<"id", "errorMessage">>]

\* Fields of an object, in order.
Of(object, fields) == [i \in DOMAIN fields |-> object.v[fields[i]]]

\* The handshake checks the version; the others return what they got.
Returned(m, reply) ==
    IF reply = Raised \/ (m = "serverHandshake" /\ reply.v.version # Num(1))
    THEN Raised ELSE Of(reply, Returns[m])

LocalReply(m) ==
    Object(CM[m].reply,
           IF m = "clientHandshake" THEN [version |-> Num(1), capabilities |-> Num(0)]
                                    ELSE NoFields)

-----------------------------------------------------------------------------

Attributes(fields) ==
    IF fields = NoFields THEN {NoFields}
    ELSE {f \in [DOMAIN fields -> UNION {ValuesOf(fields[n]) : n \in DOMAIN fields}] :
             \A n \in DOMAIN fields : f[n] \in ValuesOf(fields[n])}

Newly(x) == [n \in {New} |-> x]

\* What either end sends, with the type that the other decodes.
RequestOf(m, given) == <<SM[m].request, Object(SM[m].request, given)>>
ReplyOf(m, fields) == <<SM[m].reply, Object(SM[m].reply, fields)>>
NoticeOf(m, class, given) ==
    <<CM[m].request, Object(class, given ++ Newly(Bool(TRUE)))>>
AnswerOf(m) == <<CM[m].reply, LocalReply(m)>>

\* The type of what a keyword gives; one that is not declared gives an int.
FieldOf(m, keyword) ==
    LET fields == SM[m].request.fields
    IN  IF keyword \in DOMAIN fields THEN fields[keyword] ELSE IntType

Arguments(m) == Attributes([k \in Sends[m] |-> FieldOf(m, k)])
Replies(m) == Attributes(SM[m].reply.fields)
Notices(m) == Attributes(CM[m].request.fields)

\* The class of a request as the client knows it, or with something new.
ClassesOf(m) == {CM[m].request, Class(CM[m].request.fields ++ Newly(BoolType))}

Sent ==
    (UNION {{RequestOf(m, given) : given \in Arguments(m)}
                \cup {ReplyOf(m, fields) : fields \in Replies(m)} : m \in DOMAIN SM})
    \cup (UNION {{NoticeOf(m, class, given) : class \in ClassesOf(m),
                                            given \in Notices(m)}
                    \cup {AnswerOf(m)} : m \in DOMAIN CM})

ASSUME SentIsTyped == Sent \subseteq Typed[Depth]
ASSUME NewIsNew ==
    /\ Bool(TRUE) # Null
    /\ New \notin DOMAIN CM
    /\ \A m \in DOMAIN CM : New \notin DOMAIN CM[m].request.fields

\* What is given has every attribute of its class and no negative int, so that
\* it is itself to the other end, or refused.
ASSUME ValuesReadThemselves ==
    \A server \in BOOLEAN, n \in 0..Depth : \A p \in Typed[n] :
        p[2] \in ValuesOf(p[1]) =>
            Readings(server)[n][p[1]][p[2]] \in {p[2], Raised}

Understood(server, pair) == Reading(server, pair[1], pair[2]) # Raised

InitOf(pair, fromServer) ==
    /\ sample = pair
    /\ peerSends = fromServer
    /\ encoding = <<>>
    /\ result = Null
    /\ seen = Null
    /\ outcome = Null

ValueIsSent ==
    \E s \in Typed[Depth], fromServer \in BOOLEAN :
        /\ InitOf(s, fromServer)
        /\ talk = [kind |-> "value"]
        /\ leg = "over"

OperationIsCalled ==
    \E m \in DOMAIN SM : \E given \in Arguments(m) :
        /\ m = "serverHandshake" => given.version = Num(1)
        /\ Understood(FALSE, RequestOf(m, given))
        /\ InitOf(RequestOf(m, given), FALSE)
        /\ talk = [kind |-> "call", name |-> m, given |-> given]
        /\ leg = "there"

ServerRequests ==
    \E m \in DOMAIN CM : \E given \in Notices(m), class \in ClassesOf(m), name \in {m, New} :
        /\ InitOf(NoticeOf(m, class, given), TRUE)
        /\ talk = [kind |-> "notice", name |-> name, given |-> given,
                   newer |-> \/ name = New \/ class # CM[m].request
                             \/ ~Understood(TRUE, NoticeOf(m, CM[m].request, given))]
        /\ leg = "there"

MInit == ValueIsSent \/ OperationIsCalled \/ ServerRequests

\* encode
Sending == EncodeValue /\ UNCHANGED <<talk, leg, seen, outcome>>

\* decode; handle does not decode a message that it does not know.
Receiving ==
    /\ talk.kind = "notice" => talk.name \in DOMAIN CM
    /\ DecodeValue
    /\ UNCHANGED <<talk, leg, seen, outcome>>

Answer(pair, fromServer) ==
    /\ sample' = pair
    /\ peerSends' = fromServer
    /\ encoding' = <<>>
    /\ result' = Null
    /\ leg' = "back"
    /\ UNCHANGED talk

\* The server replies to an operation.
ServerReplies ==
    /\ talk.kind = "call" /\ leg = "there"
    /\ result # Null
    /\ seen' = result
    /\ \E fields \in Replies(talk.name) : Answer(ReplyOf(talk.name, fields), TRUE)
    /\ UNCHANGED outcome

\* Message.send makes a Reply of the answer, and the operation returns.
Return ==
    /\ talk.kind = "call" /\ leg = "back"
    /\ result # Null
    /\ leg' = "over"
    /\ outcome' = Returned(talk.name, result)
    /\ UNCHANGED <<valueVars, talk, seen>>

\* Local.handle: the client is told and a Reply is sent back.
Handle ==
    /\ talk.kind = "notice" /\ leg = "there"
    /\ result \notin {Null, Raised}
    /\ seen' = Of(result, Passes[talk.name])
    /\ Answer(AnswerOf(talk.name), FALSE)
    /\ UNCHANGED outcome

\* An exception while the request is dispatched or decoded.
CannotHandle == talk.name \notin DOMAIN CM \/ result = Raised

\* serviceReply sends the error to the server.
HandleFails ==
    /\ talk.kind = "notice" /\ leg = "there"
    /\ encoding # <<>>
    /\ CannotHandle
    /\ leg' = "over"
    /\ outcome' = Raised
    /\ UNCHANGED <<valueVars, talk, seen>>

\* The server has the reply.
ServerGetsReply ==
    /\ talk.kind = "notice" /\ leg = "back"
    /\ result # Null
    /\ leg' = "over"
    /\ outcome' = Of(result, <<>>)
    /\ UNCHANGED <<valueVars, talk, seen>>

MNext == \/ Sending \/ Receiving \/ ServerReplies \/ Return
         \/ Handle \/ HandleFails \/ ServerGetsReply

MSpec == MInit /\ [][MNext]_allVars

-----------------------------------------------------------------------------
(* Properties.                                                             *)

\* What an operation is given reaches the server in the field that declares
\* it, across the keywords of the operations, the annotations of the classes
\* and the encoding, except the offset of a reordering; and whatever the
\* server replies reaches the caller, except the terms of the handshake,
\* unless something in it, in one machine of a listing say, is unknown.
CallsGetThrough ==
    talk.kind = "call" =>
        /\ seen # Null => \A k \in DOMAIN talk.given \ {"toOffset"} :
                              k \in DOMAIN seen.v /\ seen.v[k] = talk.given[k]
        /\ leg = "over" =>
              IF outcome = Raised
              THEN \/ talk.name = "serverHandshake" /\ sample[2].v.version # Num(1)
                   \/ ~Understood(TRUE, sample)
              ELSE \A k \in DOMAIN sample[2].v \ {"version", "capabilities"} :
                       sample[2].v[k] \in ToSet(outcome)

\* A request of the server is handled with all that it says and answered, or
\* is answered with an error because there is something in it that the client
\* does not know; it is never half understood.
NoticesGetThrough ==
    talk.kind = "notice" =>
        /\ seen # Null =>
              ToSet(seen) = {talk.given[k] : k \in DOMAIN talk.given \ {"version"}}
        /\ leg = "over" => (outcome = Raised <=> talk.newer)
        /\ seen # Null => ~talk.newer
=============================================================================
