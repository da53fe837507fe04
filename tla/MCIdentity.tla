----------------------------- MODULE MCIdentity -----------------------------
(* A small instance of Identity for TLC: one customer, known by a phone     *)
(* number; two requests of the owner; and two messages: from one telegram   *)
(* account, from one mail address nobody has, from an account with username *)
(* and phone and that number, or from the customer by its id and the owner. *)
EXTENDS Identity, TLC

CONSTANTS k1, m1, m2, o1, o2, tg, phone, name, mail, owner

Ids == {tg, phone, name, mail, owner, k1}
KindOf == [x \in Ids |-> CASE x = tg -> "telegram_id"
                           [] x = phone -> "phone"
                           [] x \in {mail, owner} -> "email"
                           [] OTHER -> "username"]
ProfileOf == [e \in {k1} |-> {phone}]
From(sender, aliases) == [sender |-> sender, aliases |-> aliases]
Pairs == {<<From(tg, <<>>), From(tg, <<>>)>>,
          <<From(mail, <<>>), From(mail, <<>>)>>,
          <<From(tg, <<name, phone>>), From(phone, <<>>)>>,
          <<From(k1, <<>>), From(owner, <<>>)>>}
People == {[m \in {m1, m2} |-> IF m = first THEN pair[1] ELSE pair[2]] :
               first \in {m1, m2}, pair \in Pairs}

Symmetry == Permutations({m1, m2}) \union Permutations({o1, o2})
=============================================================================
