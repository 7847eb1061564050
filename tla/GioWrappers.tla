---------------------------- MODULE GioWrappers ----------------------------
(***************************************************************************)
(* The wrappers of the asynchronous GIO functions (gio/*.override): which  *)
(* of its arguments each one checks, in which order, how it leaves when a  *)
(* check fails, and what it asks of its PyGIONotify.  What the checks and  *)
(* the notify then do is module GioNotify.                                 *)
(*                                                                         *)
(* The optional mount_operation of the *_with_operation, start and stop    *)
(* wrappers is read uninitialised when it is omitted: here it is given.    *)
(***************************************************************************)

Checks == {"arguments", "chained", "callback", "optional", "progress",
           "flags", "cancellable", "mount_operation", "warning", "buffer"}

(* checks    the checks, in order                                          *)
(* unfreed   those whose failure returns without freeing the notify        *)
(* async     the callback is called after the wrapper has returned         *)
(* unlocked  the GIL is released around the call of GIO                    *)
(* slave     a second notify, for the progress of the operation            *)
(* buffer    "none"; "copied", for GIO to read; "allocated", for GIO to    *)
(*           write, which the notify keeps for as long as the result lives *)
Plain == [checks |-> <<"arguments", "callback", "cancellable">>, unfreed |-> {},
          async |-> TRUE, unlocked |-> FALSE, slave |-> FALSE, buffer |-> "none"]
Flagged == [Plain EXCEPT !.checks = <<"arguments", "callback", "flags", "cancellable">>]
(* The flags are parsed into the converted variable: what is checked is a
   variable that is always NULL, and any object passes.                    *)
Unconverted == Plain

(* gbufferedinputstream *)
buffered_input_stream_fill_async == Plain
(* gdatainputstream *)
data_input_stream_read_line_async == Plain
data_input_stream_read_until_async == Plain
(* gdrive *)
(* a deprecation warning made an error returns at once *)
drive_eject == [Flagged EXCEPT !.checks = 
  <<"arguments", "warning", "callback", "flags", "cancellable">>,
  !.unfreed = {"warning"}]
drive_poll_for_media == [Plain EXCEPT !.unlocked = TRUE]
drive_eject_with_operation == Flagged
drive_start == Flagged
drive_stop == Flagged
(* gfile *)
file_read_async == Plain
file_load_contents_async == Plain
file_enumerate_children_async == Flagged
file_mount_mountable == Flagged
file_unmount_mountable == Flagged
file_unmount_mountable_with_operation == Flagged
file_mount_enclosing_volume == Flagged
file_copy == [Flagged EXCEPT !.checks = <<"arguments", "optional", "flags", "cancellable">>,
  !.async = FALSE, !.unlocked = TRUE]
(* the first check of a cancellable is of a variable that is always NULL *)
file_copy_async == [Plain EXCEPT !.checks = <<"arguments", "callback", "progress", "cancellable">>,
  !.slave = TRUE]
file_move == [Flagged EXCEPT !.checks = <<"arguments", "optional", "flags", "cancellable">>,
  !.async = FALSE, !.unlocked = TRUE]
file_append_to_async == Unconverted
file_create_async == Unconverted
file_create_readwrite_async == Unconverted
file_open_readwrite_async == Plain
file_replace_readwrite_async == Unconverted
file_replace_async == Unconverted
file_query_info_async == Unconverted
file_replace_contents_async == [Flagged EXCEPT !.buffer = "copied"]
file_eject_mountable == Unconverted
file_eject_mountable_with_operation == Flagged
file_find_enclosing_mount_async == Plain
file_query_filesystem_info_async == Plain
file_set_attributes_async == Plain
file_set_display_name_async == Plain
file_poll_mountable == Plain
file_start_mountable == Flagged
file_stop_mountable == Flagged
(* gfileenumerator *)
file_enumerator_next_files_async == Plain
file_enumerator_close_async == Plain
(* gfileinputstream *)
(* no goto after the parse: the callback is checked only when that fails *)
file_input_stream_query_info_async == [Plain EXCEPT !.checks = <<"chained", "cancellable">>]
(* gfileiostream *)
(* no goto after the parse: the callback is checked only when that fails *)
file_io_stream_query_info_async == [Plain EXCEPT !.checks = <<"chained", "cancellable">>]
(* gfileoutputstream *)
(* no goto after the parse: the callback is checked only when that fails *)
file_output_stream_query_info_async == [Plain EXCEPT !.checks = <<"chained", "cancellable">>]
(* gicon *)
loadable_icon_load_async == Plain
(* ginputstream *)
input_stream_read_async == [Plain EXCEPT !.checks = <<"arguments", "callback", "cancellable", "buffer">>,
  !.buffer = "allocated"]
input_stream_close_async == Plain
input_stream_skip_async == Plain
(* giostream *)
io_stream_close_async == Plain
(* gmount *)
mount_guess_content_type == Plain
mount_remount == [Flagged EXCEPT !.checks = 
  <<"arguments", "callback", "mount_operation", "flags", "cancellable">>,
  !.unlocked = TRUE]
mount_unmount == [Flagged EXCEPT !.unlocked = TRUE]
mount_eject == [Flagged EXCEPT !.unlocked = TRUE]
mount_unmount_with_operation == Flagged
mount_eject_with_operation == Flagged
(* goutputstream *)
output_stream_write_async == [Plain EXCEPT !.buffer = "copied"]
output_stream_close_async == Plain
output_stream_flush_async == Plain
output_stream_splice_async == Flagged
(* gresolver *)
resolver_lookup_by_name_async == Plain
resolver_lookup_by_address_async == Plain
resolver_lookup_service_async == Plain
(* gsocket *)
socket_address_enumerator_next_async == Plain
socket_client_connect_async == Plain
socket_client_connect_to_host_async == Plain
socket_client_connect_to_service_async == Plain
socket_listener_accept_async == Plain
socket_listener_accept_socket_async == Plain
(* gvolume *)
(* a wrong mount_operation returns at once *)
volume_mount == [Flagged EXCEPT !.checks = 
  <<"arguments", "mount_operation", "callback", "flags", "cancellable">>,
  !.unfreed = {"mount_operation"}]
volume_eject == Flagged
volume_eject_with_operation == Flagged

Wrappers == {
  buffered_input_stream_fill_async, data_input_stream_read_line_async,
  data_input_stream_read_until_async, drive_eject, drive_poll_for_media,
  drive_eject_with_operation, drive_start, drive_stop, file_read_async,
  file_load_contents_async, file_enumerate_children_async,
  file_mount_mountable, file_unmount_mountable,
  file_unmount_mountable_with_operation, file_mount_enclosing_volume,
  file_copy, file_copy_async, file_move, file_append_to_async,
  file_create_async, file_create_readwrite_async,
  file_open_readwrite_async, file_replace_readwrite_async,
  file_replace_async, file_query_info_async, file_replace_contents_async,
  file_eject_mountable, file_eject_mountable_with_operation,
  file_find_enclosing_mount_async, file_query_filesystem_info_async,
  file_set_attributes_async, file_set_display_name_async,
  file_poll_mountable, file_start_mountable, file_stop_mountable,
  file_enumerator_next_files_async, file_enumerator_close_async,
  file_input_stream_query_info_async, file_io_stream_query_info_async,
  file_output_stream_query_info_async, loadable_icon_load_async,
  input_stream_read_async, input_stream_close_async,
  input_stream_skip_async, io_stream_close_async, mount_guess_content_type,
  mount_remount, mount_unmount, mount_eject, mount_unmount_with_operation,
  mount_eject_with_operation, output_stream_write_async,
  output_stream_close_async, output_stream_flush_async,
  output_stream_splice_async, resolver_lookup_by_name_async,
  resolver_lookup_by_address_async, resolver_lookup_service_async,
  socket_address_enumerator_next_async, socket_client_connect_async,
  socket_client_connect_to_host_async,
  socket_client_connect_to_service_async, socket_listener_accept_async,
  socket_listener_accept_socket_async, volume_mount, volume_eject,
  volume_eject_with_operation}
=============================================================================
