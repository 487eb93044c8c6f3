------------------------------- MODULE Corpus -------------------------------
(***************************************************************************)
(* corpus.c: the names of CeleryScript nodes and arguments, and the        *)
(* look-ups between a name and its number, which is its place in the       *)
(* table.                                                                  *)
(***************************************************************************)
EXTENDS JsonText

CONSTANT BADKEY   \* -1 as the unsigned type of the enumerations

node_name_lookup_table == <<
  "named_pin", "nothing", "tool", "coordinate", "move_absolute",
  "move_relative", "write_pin", "read_pin", "channel", "wait", "send_message",
  "execute", "if", "sequence", "home", "find_home", "zero", "emergency_lock",
  "emergency_unlock", "read_status", "sync", "check_updates", "power_off",
  "reboot", "toggle_pin", "explanation", "rpc_request", "rpc_ok", "rpc_error",
  "calibrate", "pair", "register_gpio", "unregister_gpio", "config_update",
  "factory_reset", "execute_script", "set_user_env", "take_photo", "point",
  "install_farmware", "update_farmware", "remove_farmware",
  "scope_declaration", "identifier", "variable_declaration",
  "parameter_declaration", "set_servo_angle", "change_ownership",
  "install_first_party_farmware">>

arg_name_lookup_table == <<
  "else", "then", "locals", "offset", "pin_number", "data_value", "location",
  "label", "milliseconds", "package", "pin_value", "radius", "rhs", "url",
  "value", "version", "x", "y", "z", "pin_id", "pin_type", "pointer_id",
  "pointer_type", "pin_mode", "sequence_id", "lhs", "op", "channel_name",
  "message_type", "tool_id", "axis", "message", "speed", "data_type">>

ASSUME BadkeyAssumption == BADKEY \in Nat \ 0..Len(node_name_lookup_table)

NumberOf(table, name) ==
  LET i == SelectInSeq(table, LAMBDA key : Bytes(key) = name) IN IF i = 0 THEN BADKEY ELSE i - 1
NameOf(table, number) == IF number < Len(table) THEN Bytes(table[number + 1]) ELSE NULL

node_name_from_string(key) == NumberOf(node_name_lookup_table, key)
string_from_node_name(name) == NameOf(node_name_lookup_table, name)
arg_name_from_string(key) == NumberOf(arg_name_lookup_table, key)
string_from_arg_name(name) == NameOf(arg_name_lookup_table, name)
=============================================================================
