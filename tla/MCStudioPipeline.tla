---------------------------- MODULE MCStudioPipeline ----------------------------
(***************************************************************************)
(* A small library of OpenAPI operations for StudioPipeline, each with a   *)
(* feature that some stage treats in its own way, and the documents and    *)
(* override files made of them.                                            *)
(***************************************************************************)
EXTENDS StudioPipeline

MCSingular == [refunds |-> "refund", exports |-> "export", users |-> "user", keys |-> "key"]
MCUnsafe == {"2fa"}

Fixed(w) == [word |-> w, param |-> FALSE]
Hole(w) == [word |-> w, param |-> TRUE]
P(name, location, required) == [name |-> name, location |-> location, required |-> required]
NoBody == [types |-> {}, required |-> FALSE]
Responses(patterns) == [p \in patterns |-> TRUE]
Created == Responses({<<"exact", 201>>, <<"default", 0>>})
Scheme(scopes) == {[oauth |-> scopes]}
Public == {}

Operation(id, method, path, words) ==
  [operation_id |-> id, method |-> method, path |-> path, tags |-> << >>, words |-> words,
   parameters |-> {}, path_parameters |-> {}, body |-> NoBody, callbacks |-> FALSE,
   responses |-> Responses({<<"exact", 200>>, <<"exact", 404>>}), security |-> Keep,
   typed_output |-> TRUE]

ListUsers ==
  [Operation(<<"list", "users">>, "get", <<Fixed("users")>>, {"personal"}) EXCEPT
     !.parameters = {P(<<"session">>, "cookie", FALSE), P(<<"limit">>, "query", FALSE)}]
CreateRefund ==
  [Operation(<<"create", "refunds">>, "post", <<Fixed("refunds")>>, {"financial"}) EXCEPT
     !.body = [types |-> {"json"}, required |-> TRUE], !.responses = Created,
     !.security = Scheme({<<"pay">>})]
ListPayments ==      \* a read that sounds financial; the success is a range
  [Operation(<<"list", "payments">>, "get", <<Fixed("payments")>>, {"financial"}) EXCEPT
     !.responses = Responses({<<"range", 2>>, <<"exact", 500>>}), !.security = Public,
     !.typed_output = FALSE]
DeleteKey ==         \* the same name in the path and in a cookie
  [Operation(<<"delete", "keys">>, "delete", <<Fixed("keys"), Hole("id")>>, {"credential"}) EXCEPT
     !.parameters = {P(<<"id">>, "path", FALSE), P(<<"id">>, "cookie", FALSE)},
     !.security = Scheme({<<"admin">>})]
PatchNote ==         \* a required header that the model is never shown
  [Operation(<<"patch", "note">>, "patch", <<Fixed("notes"), Hole("id")>>, {}) EXCEPT
     !.path_parameters = {P(<<"id">>, "path", TRUE), P(<<"x", "tenant">>, "header", FALSE)},
     !.parameters = {P(<<"x", "tenant">>, "header", TRUE)}]
ReadNote ==          \* no operationId; the template has a hole without a parameter
  Operation(<< >>, "get", <<Fixed("notes"), Hole("key")>>, {})
SendNote ==
  [Operation(<<"note", "send">>, "post", <<Fixed("notes")>>, {"external"}) EXCEPT
     !.body = [types |-> {"form"}, required |-> FALSE]]
GetUser == Operation(<<"get", "user">>, "get", <<Fixed("users"), Fixed("me")>>, {"personal"})
UserGet == Operation(<<"users", "get">>, "get", <<Fixed("users"), Fixed("self")>>, {})
StartExport ==
  [Operation(<<"start", "exports">>, "post", <<Fixed("exports")>>, {}) EXCEPT
     !.responses = Responses({<<"exact", 202>>})]
ExportStatus == Operation(<<"get", "export", "status">>, "get", <<Fixed("exports"), Fixed("status")>>, {})
UploadExport ==
  [Operation(<<"upload", "export">>, "post", <<Fixed("exports"), Fixed("files")>>, {}) EXCEPT
     !.body = [types |-> {"multipart"}, required |-> TRUE]]
ConfirmExport == Operation(<<"confirm", "export">>, "put", <<Fixed("exports"), Fixed("done")>>, {})
TraceNote == Operation(<<"trace", "note">>, "trace", <<Fixed("notes")>>, {})

Document(operations, security) ==
  [operations |-> operations, security |-> security, webhooks |-> FALSE]

MCDocuments ==
  {Document(<<CreateRefund, ListUsers>>, Scheme({})),
   Document(<<ListPayments, ListUsers>>, Public),
   Document(<<DeleteKey, PatchNote>>, Public),
   Document(<<SendNote, PatchNote, ReadNote>>, Public),
   Document(<<GetUser, UserGet, TraceNote>>, Scheme({<<"read">>})),
   Document(<<UploadExport, StartExport, ExportStatus, ConfirmExport>>, Public)}

Override(risk, approval, name, scopes) ==
  [enabled |-> TRUE, risk_class |-> risk, approval_mode |-> approval, name |-> name,
   required_scopes |-> scopes]
Disabled == [Override(Keep, Keep, Keep, {}) EXCEPT !.enabled = FALSE]

ListUsersId == <<"list", "users">>
PatchNoteId == <<"patch", "note">>

MCOverrideSets ==
  {<< >>,
   (ListUsersId :> Override(4, Keep, Keep, {})) @@ (PatchNoteId :> Override(3, Keep, Keep, {})),
   (ListUsersId :> Override(3, "approver", <<"people", "list">>, {<<"read">>}))
     @@ (PatchNoteId :> Override(5, "dual_control", Keep, {})),
   (<<"delete", "keys">> :> Override(3, Keep, Keep, {}))
     @@ (<<"note", "send">> :> Override(Keep, None, Keep, {})),
   (<<"get", "export", "status">> :> Disabled) @@ (<<"note", "send">> :> Disabled),
   (<<"get", "user">> :> Override(Keep, Keep, <<"user", "get", "get">>, {}))
     @@ (PatchNoteId :> Override(Keep, Keep, <<"2fa">>, {}))}
=============================================================================
