-------------------------- MODULE UserRepository --------------------------
(* The table users behind adapters/postgres/user_repository.go.  Each      *)
(* operator is one SQL statement, which PostgreSQL runs atomically; no     *)
(* method of it is called in a transaction.                                *)
CONSTANTS
    Ids,        \* row ids, no fewer than names
    Names,      \* usernames
    Clients,    \* people, each with one password, named after them
    Nil         \* SQL's NULL, Go's nil

RoleUser  == "user"
RoleAdmin == "admin"
Roles     == {RoleUser, RoleAdmin}

(* No operation sets deleted_at. *)
User == [username : Names, password : Clients, role : Roles]

ASSUME NilNoUserAssumption ==
    /\ Nil \notin Ids \cup Names \cup Clients \cup Roles
    /\ Nil \notin User

VARIABLE users  \* users[id] is the row, or Nil

UsersInit == users = [id \in Ids |-> Nil]

Exists(id) == users[id] # Nil

(* GetByUsername: the ids of the rows it finds, at most one. *)
ByUsername(name) == {id \in Ids : Exists(id) /\ users[id].username = name}

(* Faulty variant: only the primary key is unique. *)
CreateConflictsOnId(id, user) == Exists(id)

CreateConflicts(id, user) == Exists(id) \/ ByUsername(user.username) # {}

Create(id, user) == users' = [users EXCEPT ![id] = user]

(* Password and role are overwritten with the caller's copy, whatever the  *)
(* row holds by now; a missing row is no error.                            *)
Update(id, user) ==
    users' = [users EXCEPT ![id] =
                 IF @ = Nil THEN Nil
                 ELSE [user EXCEPT !.username = users[id].username]]
===========================================================================
